---- MODULE Spec2Model ----
(***************************************************************************)
(* Model of the stop-wait coordinator of vscode-copilot-debugger:          *)
(* waitForBreakpointHit (events), the breakpoint event emitter fed by the  *)
(* debug adapter tracker, the session list, and the two callers that arm   *)
(* a wait (startDebuggingAndWaitForStop, resumeDebugSession).              *)
(***************************************************************************)
EXTENDS Integers, Sequences, FiniteSets, TLC

VARIABLES
  activeSessions,      \* common.activeSessions: the array of registered sessions
  backend,             \* per session of the pool: "idle" | "live" | "ended"
  stoppedListeners,    \* listeners of breakpointEventEmitter, in subscription order (wait ids)
  terminateListeners,  \* listeners of onSessionTerminate, in subscription order (wait ids)
  timers,              \* wait ids whose setTimeout callback has not run yet
  waitParams,          \* per wait: the params object given to waitForBreakpointHit
  promise,             \* per wait: state of breakpointHitPromise
  result,              \* per wait: what the async function returned (or NoResult)
  firstOutcome,        \* per wait: history, the first outcome offered to the wait
  startCall,           \* the startDebuggingAndWaitForStop call
  resumeCall,          \* the resumeDebugSession call
  probe,               \* the value a function under test returned
  tracker,             \* the tracker's onDidSendMessage calls: received, awaiting getCallStack, fired
  stopCall,            \* the stopDebugSession call
  adapter,             \* what the debug adapter answers to 'scopes' and 'variables'
  requests,            \* requests made of sessions (customRequest, stopDebugging), in order
  inspectCall,         \* the getStackFrameVariables / ExpandVariableTool call
  breakpoints          \* vscode.debug.breakpoints

sessionVars == <<activeSessions, backend>>
waitVars == <<stoppedListeners, terminateListeners, timers, waitParams, promise,
              result, firstOutcome>>
callVars == <<startCall, resumeCall, probe, tracker, stopCall>>
inspectVars == <<adapter, requests, inspectCall, breakpoints>>

vars == <<sessionVars, waitVars, callVars, inspectVars>>

-----------------------------------------------------------------------------
(* Bounds *)

MaxWaits == 2      \* waits armed by direct callers of waitForBreakpointHit
MaxAttempts == 4   \* runs of the body of getStackFrameVariables in one call

-----------------------------------------------------------------------------
(* Strings (String.prototype.startsWith / includes) *)

StartsWith(s, p) == Len(p) <= Len(s) /\ SubSeq(s, 1, Len(p)) = p

Includes(s, sub) ==
  \E i \in 0..(Len(s) - Len(sub)) : SubSeq(s, i + 1, i + Len(sub)) = sub

-----------------------------------------------------------------------------
(* Sessions the debug backend can create.  "Run test.ps1 2" is the renamed  *)
(* child of "Run test.ps1"; s2 carries a configuration-level sessionId.     *)

SessionPool ==
  { [id |-> "s1", name |-> "Run test.ps1",   configuration |-> [type |-> "PowerShell"]],
    [id |-> "s2", name |-> "Run test.ps1 2", configuration |-> [type |-> "PowerShell", sessionId |-> "cfg-2"]],
    [id |-> "s3", name |-> "Attach",         configuration |-> [type |-> "node"]] }

SessionIds == { s.id : s \in SessionPool }

\* a second session with the name of s1 (names are not unique)
Twin == [id |-> "s4", name |-> "Run test.ps1", configuration |-> [type |-> "PowerShell"]]

StopPool == SessionPool \cup {Twin}

SessionOf(id) == CHOOSE s \in SessionPool : s.id = id

NoSession == [undefined |-> TRUE]

IsRegistered(id) == \E i \in 1..Len(activeSessions) : activeSessions[i].id = id

\* Array.prototype.find: the first element satisfying the predicate (given as
\* the set of sessions that satisfy it), or undefined
Find(arr, satisfying) ==
  IF \E i \in 1..Len(arr) : arr[i] \in satisfying
  THEN arr[CHOOSE i \in 1..Len(arr) :
             arr[i] \in satisfying /\ \A j \in 1..(i - 1) : arr[j] \notin satisfying]
  ELSE NoSession

-----------------------------------------------------------------------------
(* Values *)

\* undefined in place of a string, and in place of an object
Undefined == "<undefined>"
UndefinedObject == [undefined |-> TRUE]

\* `if (x)` on an optional string parameter: absent and '' are falsy
Truthy(obj, key) == key \in DOMAIN obj /\ obj[key] # ""

\* JSON.stringify of an object: keys whose value is undefined are dropped
JSONStringify(obj) ==
  [json |-> [k \in {k \in DOMAIN obj :
                      /\ ~(k = "filePath" /\ obj[k] = Undefined)
                      /\ ~(k = "exceptionInfo" /\ obj[k] = UndefinedObject)} |-> obj[k]]]

JSONParse(text) == text.json

Pending == [state |-> "pending"]
Fulfilled(v) == [state |-> "fulfilled", value |-> v]
Rejected(msg) == [state |-> "rejected", message |-> msg]

NoResult == [returned |-> FALSE]

\* (mutant: every settlement overwrites the outcome)
SettleOverwriting(p, outcome) == outcome

\* resolve(v) / reject(e) of a Promise: only the first settlement takes effect
Settle(p, outcome) == IF p.state = "pending" THEN outcome ELSE p

\* Disposable.dispose() of an emitter subscription: idempotent removal
Dispose(listeners, w) == SelectSeq(listeners, LAMBDA x : x # w)

Subscribed(listeners, w) == \E i \in 1..Len(listeners) : listeners[i] = w

-----------------------------------------------------------------------------
(* waitForBreakpointHit: parameters *)

DefaultTimeout == 30000

Timeout(p) == IF "timeout" \in DOMAIN p THEN p.timeout ELSE DefaultTimeout

IncludeTermination(p) ==
  IF "includeTermination" \in DOMAIN p THEN p.includeTermination ELSE TRUE

-----------------------------------------------------------------------------
(* waitForBreakpointHit: the onBreakpointHit listener *)

\* (mutant: by name, exact match first, then the name as a prefix of a session's
\* name, then a session's name as a prefix of the name)
ResolveTargetThreeStrategies(p, sessions) ==
  IF Truthy(p, "sessionId")
  THEN Find(sessions, {s \in SessionPool :
              \/ s.id = p.sessionId
              \/ /\ "sessionId" \in DOMAIN s.configuration
                 /\ s.configuration.sessionId = p.sessionId})
  ELSE IF Truthy(p, "sessionName")
  THEN IF Find(sessions, {s \in SessionPool : s.name = p.sessionName}) # NoSession
       THEN Find(sessions, {s \in SessionPool : s.name = p.sessionName})
       ELSE IF Find(sessions, {s \in SessionPool : StartsWith(s.name, p.sessionName)}) # NoSession
       THEN Find(sessions, {s \in SessionPool : StartsWith(s.name, p.sessionName)})
       ELSE Find(sessions, {s \in SessionPool : StartsWith(p.sessionName, s.name)})
  ELSE IF Len(sessions) > 0 THEN sessions[1] ELSE NoSession

\* the session the listener takes as its target, looked up at delivery time
ResolveTarget(p, sessions) ==
  IF Truthy(p, "sessionId")
  THEN Find(sessions, {s \in SessionPool :
              \/ s.id = p.sessionId
              \/ /\ "sessionId" \in DOMAIN s.configuration
                 /\ s.configuration.sessionId = p.sessionId})
  ELSE IF Truthy(p, "sessionName")
  THEN Find(sessions, {s \in SessionPool :
              s.name = p.sessionName \/ StartsWith(s.name, p.sessionName)})
  ELSE IF Len(sessions) > 0 THEN sessions[1] ELSE NoSession

\* (mutant: no prefix matching)
EventMatchesExactly(event, target) ==
  /\ target # NoSession
  /\ \/ event.sessionId = target.id
     \/ event.sessionName = target.name

EventMatchesTarget(event, target) ==
  /\ target # NoSession
  /\ \/ event.sessionId = target.id
     \/ event.sessionName = target.name
     \/ StartsWith(event.sessionName, target.name)
     \/ StartsWith(target.name, event.sessionName)

\* (mutant: the termination subscription is left on the bus)
OnBreakpointHitListenerLeaking(b, w, event, sessions) ==
  IF EventMatchesTarget(event, ResolveTarget(waitParams[w], sessions))
  THEN [b EXCEPT !.stoppedListeners = Dispose(@, w),
                 !.promise[w] = Settle(@, Fulfilled(event))]
  ELSE b

\* (mutant: one listener shared by all waits is disposed)
OnBreakpointHitListenerShared(b, w, event, sessions) ==
  IF EventMatchesTarget(event, ResolveTarget(waitParams[w], sessions))
  THEN [b EXCEPT !.stoppedListeners = <<>>,
                 !.terminateListeners = Dispose(@, w),
                 !.promise[w] = Settle(@, Fulfilled(event))]
  ELSE b

\* (mutant: the target is looked up in the list as it was when the wait was armed)
OnBreakpointHitListenerArmedTarget(b, w, event, sessions) ==
  IF EventMatchesTarget(event, ResolveTarget(waitParams[w], probe.armed))
  THEN [b EXCEPT !.stoppedListeners = Dispose(@, w),
                 !.terminateListeners = Dispose(@, w),
                 !.promise[w] = Settle(@, Fulfilled(event))]
  ELSE b

\* (mutant: an event carrying the given sessionId is taken as a match as well)
OnBreakpointHitListenerByEventId(b, w, event, sessions) ==
  IF \/ EventMatchesTarget(event, ResolveTarget(waitParams[w], sessions))
     \/ Truthy(waitParams[w], "sessionId") /\ event.sessionId = waitParams[w].sessionId
  THEN [b EXCEPT !.stoppedListeners = Dispose(@, w),
                 !.terminateListeners = Dispose(@, w),
                 !.promise[w] = Settle(@, Fulfilled(event))]
  ELSE b

\* b = [promise, stoppedListeners, terminateListeners]: what the listener of
\* wait w does to it when `event` is delivered
OnBreakpointHitListener(b, w, event, sessions) ==
  IF EventMatchesTarget(event, ResolveTarget(waitParams[w], sessions))
  THEN [b EXCEPT !.stoppedListeners = Dispose(@, w),
                 !.terminateListeners = Dispose(@, w),
                 !.promise[w] = Settle(@, Fulfilled(event))]
  ELSE b

-----------------------------------------------------------------------------
(* waitForBreakpointHit: the onSessionTerminate listener *)

\* (mutant: name equality only)
TerminationMatchesExactly(p, endEvent) ==
  IF Truthy(p, "sessionId") THEN endEvent.sessionId = p.sessionId
  ELSE IF Truthy(p, "sessionName") THEN endEvent.sessionName = p.sessionName
  ELSE TRUE

TerminationMatches(p, endEvent) ==
  IF Truthy(p, "sessionId") THEN endEvent.sessionId = p.sessionId
  ELSE IF Truthy(p, "sessionName")
  THEN endEvent.sessionName = p.sessionName
       \/ StartsWith(endEvent.sessionName, p.sessionName)
  ELSE TRUE

\* (mutant: the thread of the last stop is reported)
TerminatedInfoWithThread(endEvent) ==
  [sessionId |-> endEvent.sessionId, sessionName |-> endEvent.sessionName,
   threadId |-> 1, reason |-> "terminated"]

TerminatedInfo(endEvent) ==
  [sessionId |-> endEvent.sessionId, sessionName |-> endEvent.sessionName,
   threadId |-> 0, reason |-> "terminated"]

OnSessionTerminateListener(b, w, endEvent) ==
  IF TerminationMatches(waitParams[w], endEvent)
  THEN [b EXCEPT !.stoppedListeners = Dispose(@, w),
                 !.terminateListeners = Dispose(@, w),
                 !.promise[w] = Settle(@, Fulfilled(TerminatedInfo(endEvent)))]
  ELSE b

-----------------------------------------------------------------------------
(* waitForBreakpointHit: the setTimeout callback *)

TimeoutMessage(p) ==
  "Timed out waiting for breakpoint or termination (" \o ToString(Timeout(p)) \o "ms)."

\* (mutant: the timer only cleans up)
OnTimeoutDisposeOnly(b, w) ==
  [b EXCEPT !.stoppedListeners = Dispose(@, w),
            !.terminateListeners = Dispose(@, w)]

\* (mutant: the timer rejects and leaves the subscriptions)
OnTimeoutRejectOnly(b, w) ==
  [b EXCEPT !.promise[w] = Settle(@, Rejected(TimeoutMessage(waitParams[w])))]

OnTimeout(b, w) ==
  [b EXCEPT !.stoppedListeners = Dispose(@, w),
            !.terminateListeners = Dispose(@, w),
            !.promise[w] = Settle(@, Rejected(TimeoutMessage(waitParams[w])))]

-----------------------------------------------------------------------------
(* vscode.EventEmitter.fire: every listener subscribed when fire() is called *)
(* is called in subscription order, unless it was disposed meanwhile         *)

Bus == [promise |-> promise, stoppedListeners |-> stoppedListeners,
        terminateListeners |-> terminateListeners]

RECURSIVE FireStopped(_, _, _, _)
FireStopped(b, listeners, event, sessions) ==
  IF listeners = <<>> THEN b
  ELSE LET w == Head(listeners)
           b1 == IF Subscribed(b.stoppedListeners, w)
                 THEN OnBreakpointHitListener(b, w, event, sessions) ELSE b
       IN FireStopped(b1, Tail(listeners), event, sessions)

RECURSIVE FireTerminated(_, _, _)
FireTerminated(b, listeners, endEvent) ==
  IF listeners = <<>> THEN b
  ELSE LET w == Head(listeners)
           b1 == IF Subscribed(b.terminateListeners, w)
                 THEN OnSessionTerminateListener(b, w, endEvent) ELSE b
       IN FireTerminated(b1, Tail(listeners), endEvent)

\* what the async function returns once breakpointHitPromise is settled
WaitResult(p) ==
  IF p.state = "fulfilled"
  THEN [content |-> <<[type |-> "text", text |-> JSONStringify(p.value)]>>,
        isError |-> FALSE]
  ELSE [content |-> <<[type |-> "text",
                       text |-> "Error waiting for breakpoint: " \o p.message]>>,
        isError |-> TRUE]

\* (mutant: no try/catch around the await, a rejection passes through)
StopPromiseUncaught(p) ==
  IF p.state = "rejected" THEN p ELSE Fulfilled(WaitResult(p))

\* the promise the async function returns to its caller, once
\* breakpointHitPromise is settled: its try/catch returns on both paths
StopPromise(p) == Fulfilled(WaitResult(p))

\* The state after a callback has run: the await on breakpointHitPromise
\* resumes in the microtask that follows a settlement, before any other
\* event or timer callback, and the call returns its result
SetBus(b) ==
  /\ promise' = b.promise
  /\ stoppedListeners' = b.stoppedListeners
  /\ terminateListeners' = b.terminateListeners
  /\ result' = [w \in DOMAIN result |->
                  IF result[w] = NoResult /\ b.promise[w] # Pending
                  THEN WaitResult(b.promise[w]) ELSE result[w]]

-----------------------------------------------------------------------------------------------------------------------------------------------------
(* History kept for the properties: the first outcome offered to each wait, *)
(* computed from the stream of fired events and expired timers alone        *)

Waits == 1..Len(waitParams)

OfferStopped(event, sessions) ==
  [w \in Waits |->
     IF firstOutcome[w] = Pending
        /\ EventMatchesTarget(event, ResolveTarget(waitParams[w], sessions))
     THEN Fulfilled(event) ELSE firstOutcome[w]]

OfferTerminated(endEvent) ==
  [w \in Waits |->
     IF firstOutcome[w] = Pending
        /\ IncludeTermination(waitParams[w])
        /\ TerminationMatches(waitParams[w], endEvent)
     THEN Fulfilled(TerminatedInfo(endEvent)) ELSE firstOutcome[w]]

OfferTimeout(w) ==
  [firstOutcome EXCEPT ![w] =
     IF @ = Pending THEN Rejected(TimeoutMessage(waitParams[w])) ELSE @]

-----------------------------------------------------------------------------
(* waitForBreakpointHit: the synchronous part of a call (up to its await):  *)
(* both subscriptions and the timer are set up inside the Promise executor  *)

ArmWait(p) ==
  LET w == Len(waitParams) + 1 IN
  /\ waitParams' = Append(waitParams, p)
  /\ promise' = Append(promise, Pending)
  /\ result' = Append(result, NoResult)
  /\ firstOutcome' = Append(firstOutcome, Pending)
  /\ stoppedListeners' = Append(stoppedListeners, w)
  /\ terminateListeners' =
       IF IncludeTermination(p) THEN Append(terminateListeners, w)
       ELSE terminateListeners
  /\ timers' = timers \cup {w}

\* the timer set by wait w expires
TimerFires(w) ==
  /\ w \in timers
  /\ timers' = timers \ {w}
  /\ SetBus(OnTimeout(Bus, w))
  /\ firstOutcome' = OfferTimeout(w)
  /\ UNCHANGED <<sessionVars, waitParams, callVars, inspectVars>>

-----------------------------------------------------------------------------
(* The debug adapter tracker: onDidSendMessage for a 'stopped' message *)

ValidReasons == {"breakpoint", "step", "pause", "exception", "assertion", "entry"}

StoppedBodies ==
  { [reason |-> "breakpoint", threadId |-> 1],
    [reason |-> "goto", threadId |-> 1] }

\* what getCallStack brings: no usable frame, a top frame, or an exception
CallStackOutcomes == {"noFrame", "frame", "throws"}

TopFrame == [id |-> 10, line |-> 3, path |-> "/w/test.ps1"]

OrElse(obj, key, default) == IF Truthy(obj, key) THEN obj[key] ELSE default

ExceptionDetails(body) ==
  IF body.reason = "exception" /\ Truthy(body, "description")
  THEN [description |-> OrElse(body, "description", "Unknown exception"),
        details |-> OrElse(body, "text", "No additional details available")]
  ELSE UndefinedObject

ExceptionDetailsInCatch(body) ==
  IF body.reason = "exception"
  THEN [description |-> OrElse(body, "description", "Unknown exception"),
        details |-> OrElse(body, "text", "No details available")]
  ELSE UndefinedObject

BasicEvent(session, body, details) ==
  [sessionId |-> session.id, sessionName |-> session.name,
   threadId |-> body.threadId, reason |-> body.reason, exceptionInfo |-> details]

FullEvent(session, body, frame) ==
  [sessionId |-> session.id, sessionName |-> session.name,
   threadId |-> body.threadId, reason |-> body.reason,
   frameId |-> frame.id, filePath |-> frame.path, line |-> frame.line,
   exceptionInfo |-> ExceptionDetails(body)]

StoppedEvent(session, body, cs) ==
  IF cs = "frame" THEN FullEvent(session, body, TopFrame)
  ELSE IF cs = "throws" THEN BasicEvent(session, body, ExceptionDetailsInCatch(body))
  ELSE BasicEvent(session, body, ExceptionDetails(body))

\* breakpointEventEmitter.fire(event)
PublishStopped(event) ==
  /\ SetBus(FireStopped(Bus, stoppedListeners, event, activeSessions))
  /\ firstOutcome' = OfferStopped(event, activeSessions)

\* the adapter of session id sends 'stopped' with `body`
OnDidSendMessage(id, body, cs) ==
  /\ backend[id] = "live"
  /\ IF body.reason \in ValidReasons
     THEN PublishStopped(StoppedEvent(SessionOf(id), body, cs))
     ELSE UNCHANGED <<promise, stoppedListeners, terminateListeners, result,
                      firstOutcome>>
  /\ UNCHANGED <<sessionVars, timers, waitParams, callVars, inspectVars>>

-----------------------------------------------------------------------------
(* The session list and the termination event (module common) *)

\* the backend creates a session
SessionLaunches(id) ==
  /\ backend[id] = "idle"
  /\ backend' = [backend EXCEPT ![id] = "live"]
  /\ UNCHANGED <<activeSessions, waitVars, callVars, inspectVars>>

\* session start notification: the session is added to the list
OnDidStartDebugSession(id) ==
  /\ backend[id] = "live"
  /\ ~IsRegistered(id)
  /\ activeSessions' = Append(activeSessions, SessionOf(id))
  /\ UNCHANGED <<backend, waitVars, callVars, inspectVars>>

TerminatedEvent(session) == [sessionId |-> session.id, sessionName |-> session.name]

\* session end notification: the session leaves the list, the termination
\* event is fired
OnDidTerminateDebugSession(id) ==
  /\ backend[id] = "live"
  /\ backend' = [backend EXCEPT ![id] = "ended"]
  /\ activeSessions' = SelectSeq(activeSessions, LAMBDA s : s.id # id)
  /\ LET endEvent == TerminatedEvent(SessionOf(id)) IN
       /\ SetBus(FireTerminated(Bus, terminateListeners, endEvent))
       /\ firstOutcome' = OfferTerminated(endEvent)
  /\ UNCHANGED <<timers, waitParams, callVars, inspectVars>>

\* what the backend and the adapters do on their own
Environment ==
  \/ \E id \in SessionIds : SessionLaunches(id)
  \/ \E id \in SessionIds : OnDidStartDebugSession(id)
  \/ \E id \in SessionIds : OnDidTerminateDebugSession(id)
  \/ \E id \in SessionIds, body \in StoppedBodies :
       OnDidSendMessage(id, body, "frame")

-----------------------------------------------------------------------------
(* Callers of waitForBreakpointHit *)

NoParams == [x \in {} |-> ""]

WaitParamSets ==
  { NoParams,
    [sessionId |-> "cfg-2"],
    [sessionId |-> "s1", timeout |-> 50],
    [sessionName |-> "Run test.ps1"],
    [sessionName |-> "Run test.ps1 2", includeTermination |-> FALSE] }

CallWaitForBreakpointHit(p) ==
  /\ Len(waitParams) < MaxWaits
  /\ ArmWait(p)
  /\ UNCHANGED <<sessionVars, callVars, inspectVars>>

-----------------------------------------------------------------------------
(* The debug adapter's answers to customRequest, as JavaScript values *)

JsUndefined == [type |-> "undefined"]
JsString(v) == [type |-> "string", value |-> v]
JsArray(items) == [type |-> "array", items |-> items]
\* the request is rejected with an Error carrying this message
Throws(message) == [throws |-> message]

\* `!v`
Falsy(v) == v.type = "undefined" \/ (v.type = "string" /\ v.value = "")

Scope(name, ref) == [name |-> name, variablesReference |-> ref]
Variable(name, value, ref) == [name |-> name, value |-> value, variablesReference |-> ref]

LocalVariables ==
  <<Variable("alpha", "1", 0), Variable("Beta", "2", 0), Variable("node", "Node", 7)>>
GlobalVariables ==
  <<Variable("gamma", "3", 0), Variable("ALPHA2", "4", 0)>>
NodeChildren ==
  <<Variable("left", "Node", 8), Variable("right", "null", 0)>>
LeftChildren ==
  <<Variable("leaf", "5", 0)>>

VariablesOk(items) == [type |-> "object", variables |-> JsArray(items)]

ScopesResponses ==
  { Throws("Thread is not paused"),
    JsUndefined,
    [type |-> "object"],
    [type |-> "object", scopes |-> JsUndefined],
    [type |-> "object", scopes |-> JsString("none")],
    [type |-> "object", scopes |-> JsArray(<<>>)],
    [type |-> "object", scopes |-> JsArray(<<Scope("Local", 1)>>)],
    [type |-> "object", scopes |-> JsArray(<<Scope("Local", 1), Scope("Global", 2)>>)],
    [type |-> "object", scopes |-> JsArray(<<Scope("Registers", 0), Scope("Local", 1),
                                             Scope("Global", 2)>>)] }

LocalResponses ==
  { VariablesOk(LocalVariables),
    VariablesOk(<<>>),
    Throws("Unable to retrieve variables"),
    [type |-> "object"],
    [type |-> "object", variables |-> JsString("none")] }

GlobalResponses ==
  { VariablesOk(GlobalVariables),
    Throws("Unable to retrieve variables"),
    JsUndefined }

\* the order in which the adapter answers 'variables' requests that are out
\* at the same time, by variablesReference
ResponseOrders == { <<1, 2>>, <<2, 1>> }

AdapterWith(scopes, local, global) ==
  [scopes |-> scopes,
   variables |-> (1 :> local @@ 2 :> global @@ 7 :> VariablesOk(NodeChildren)
                  @@ 8 :> VariablesOk(LeftChildren)),
   order |-> <<1, 2>>]

Adapters ==
  { [AdapterWith(sr, l, g) EXCEPT !.order = o] :
      sr \in ScopesResponses, l \in LocalResponses, g \in GlobalResponses,
      o \in ResponseOrders }

DefaultAdapter ==
  AdapterWith([type |-> "object",
               scopes |-> JsArray(<<Scope("Local", 1), Scope("Global", 2)>>)],
              VariablesOk(LocalVariables), VariablesOk(GlobalVariables))

ScopesRequest(session, frameId) ==
  [session |-> session.id, command |-> "scopes", args |-> [frameId |-> frameId]]

VariablesRequest(session, ref) ==
  [session |-> session.id, command |-> "variables", args |-> [variablesReference |-> ref]]

\* vscode.DebugSession.type
SessionType(session) == session.configuration.type

-----------------------------------------------------------------------------
(* new RegExp(filter, 'i').test(name), for patterns made of literal         *)
(* characters, '|' and a leading '^'; an unbalanced '(' is a SyntaxError    *)

Uppers == "ABCDEFGHIJKLMNOPQRSTUVWXYZ"
Lowers == "abcdefghijklmnopqrstuvwxyz"

LowerChar(c) ==
  IF \E i \in 1..Len(Uppers) : SubSeq(Uppers, i, i) = c
  THEN LET i == CHOOSE i \in 1..Len(Uppers) : SubSeq(Uppers, i, i) = c
       IN SubSeq(Lowers, i, i)
  ELSE c

RECURSIVE ToLowerCase(_)
ToLowerCase(s) ==
  IF Len(s) = 0 THEN ""
  ELSE LowerChar(SubSeq(s, 1, 1)) \o ToLowerCase(SubSeq(s, 2, Len(s)))

\* the alternatives of a pattern: the pieces between '|'
RECURSIVE Alternatives(_)
Alternatives(pattern) ==
  IF \E i \in 1..Len(pattern) : SubSeq(pattern, i, i) = "|"
  THEN LET i == CHOOSE i \in 1..Len(pattern) :
                  /\ SubSeq(pattern, i, i) = "|"
                  /\ \A j \in 1..(i - 1) : SubSeq(pattern, j, j) # "|"
       IN {SubSeq(pattern, 1, i - 1)} \cup Alternatives(SubSeq(pattern, i + 1, Len(pattern)))
  ELSE {pattern}

RECURSIVE Count(_, _)
Count(s, c) ==
  IF Len(s) = 0 THEN 0
  ELSE (IF SubSeq(s, 1, 1) = c THEN 1 ELSE 0) + Count(SubSeq(s, 2, Len(s)), c)

\* new RegExp(pattern) throws on an unterminated group
IsValidPattern(pattern) == Count(pattern, "(") = Count(pattern, ")")

SyntaxErrorMessage(pattern) ==
  "Invalid regular expression: /" \o pattern \o "/: Unterminated group"

\* (mutant: case-sensitive test)
RegExpTestCaseSensitive(pattern, name) ==
  \E alt \in Alternatives(pattern) :
    IF StartsWith(alt, "^")
    THEN StartsWith(name, SubSeq(alt, 2, Len(alt)))
    ELSE Includes(name, alt)

RegExpTest(pattern, name) ==
  \E alt \in Alternatives(ToLowerCase(pattern)) :
    IF StartsWith(alt, "^")
    THEN StartsWith(ToLowerCase(name), SubSeq(alt, 2, Len(alt)))
    ELSE Includes(ToLowerCase(name), alt)

-----------------------------------------------------------------------------
(* Specification of the coordinator under direct callers *)

NoProbe == [applied |-> FALSE]

\* no message received yet: the messages received, the calls suspended at
\* `await getCallStack`, the calls that fired, and what they fired
NoTracker == [received |-> <<>>, awaiting |-> {}, fired |-> <<>>, events |-> <<>>]

NoCall == [pc |-> "idle"]

\* vscode.debug.breakpoints when the extension starts
ExistingBreakpoints == <<[path |-> "/w/test.ps1", line |-> 2, enabled |-> TRUE]>>

InitInspect ==
  /\ adapter = DefaultAdapter
  /\ requests = <<>>
  /\ inspectCall = NoCall
  /\ breakpoints = ExistingBreakpoints

InitCalls ==
  /\ startCall = [pc |-> "idle", wait |-> 0, session |-> ""]
  /\ resumeCall = [pc |-> "idle"]
  /\ probe = NoProbe
  /\ tracker = NoTracker
  /\ stopCall = NoCall
  /\ InitInspect

InitWaits ==
  /\ stoppedListeners = <<>>
  /\ terminateListeners = <<>>
  /\ timers = {}
  /\ waitParams = <<>>
  /\ promise = <<>>
  /\ result = <<>>
  /\ firstOutcome = <<>>

Init ==
  /\ activeSessions = <<>>
  /\ backend = [id \in SessionIds |-> "idle"]
  /\ InitWaits
  /\ InitCalls

Next ==
  \/ \E p \in WaitParamSets : CallWaitForBreakpointHit(p)
  \/ \E w \in Waits : TimerFires(w)
  \/ Environment

Spec == Init /\ [][Next]_vars

\* a timer that is set expires
FairSpec == Spec /\ \A w \in 1..MaxWaits : WF_vars(TimerFires(w))

-----------------------------------------------------------------------------------------------------------------------------------------------------
(* The listener's target lookup on its own: any registration order, one     *)
(* armed wait, the lookup applied once                                       *)

Registries ==
  { q \in UNION { [1..n -> SessionPool] : n \in 0..Cardinality(SessionPool) } :
      \A i, j \in DOMAIN q : i # j => q[i] # q[j] }

ResolveParamSets ==
  WaitParamSets \cup
    { [sessionName |-> "Run"],
      [sessionName |-> "Attach"],
      [sessionId |-> "nope"],
      [sessionId |-> "", sessionName |-> "Attach"],
      [sessionId |-> "s3", sessionName |-> "Run test.ps1"] }

InitResolve ==
  /\ activeSessions \in Registries
  /\ backend = [id \in SessionIds |-> IF IsRegistered(id) THEN "live" ELSE "idle"]
  /\ \E p \in ResolveParamSets :
       /\ waitParams = <<p>>
       /\ terminateListeners = IF IncludeTermination(p) THEN <<1>> ELSE <<>>
  /\ stoppedListeners = <<1>>
  /\ timers = {1}
  /\ promise = <<Pending>>
  /\ result = <<NoResult>>
  /\ firstOutcome = <<Pending>>
  /\ InitCalls

ListenerResolvesTarget ==
  /\ probe = NoProbe
  /\ probe' = [applied |-> TRUE,
               target |-> ResolveTarget(waitParams[1], activeSessions)]
  /\ UNCHANGED <<sessionVars, waitVars, startCall, resumeCall, tracker, stopCall, inspectVars>>

NextResolve == ListenerResolvesTarget

SpecResolve == InitResolve /\ [][NextResolve]_vars

-----------------------------------------------------------------------------
(* One wait armed over any session list, which then changes under it: the   *)
(* list as it was when the wait was armed is kept for the properties        *)

LiveParamSets == ResolveParamSets \cup { [includeTermination |-> FALSE] }

InitLive ==
  /\ activeSessions \in Registries
  /\ backend = [id \in SessionIds |-> IF IsRegistered(id) THEN "live" ELSE "idle"]
  /\ \E p \in LiveParamSets :
       /\ waitParams = <<p>>
       /\ terminateListeners = IF IncludeTermination(p) THEN <<1>> ELSE <<>>
  /\ stoppedListeners = <<1>>
  /\ timers = {1}
  /\ promise = <<Pending>>
  /\ result = <<NoResult>>
  /\ firstOutcome = <<Pending>>
  /\ probe = [armed |-> activeSessions]
  /\ tracker = NoTracker
  /\ startCall = [pc |-> "idle", wait |-> 0, session |-> ""]
  /\ resumeCall = [pc |-> "idle"]
  /\ stopCall = NoCall
  /\ InitInspect

NextLive ==
  \/ TimerFires(1)
  \/ Environment

SpecLive == InitLive /\ [][NextLive]_vars

-----------------------------------------------------------------------------
(* The tracker's onDidSendMessage as it runs: the call suspends at          *)
(* `await getCallStack(...)` and fires its event when the lookup returns,   *)
(* while calls for later messages start.  (OnDidSendMessage above is one    *)
(* call whose lookup returns before anything else happens.)                 *)

MaxMessages == 2   \* messages the adapters send

\* onDidSendMessage up to its await: a 'stopped' message with a valid reason
\* starts a call-stack lookup, any other returns at once
TrackerReceives(id, body) ==
  /\ backend[id] = "live"
  /\ Len(tracker.received) < MaxMessages
  /\ tracker' = [tracker EXCEPT
                   !.received = Append(@, [session |-> id, body |-> body]),
                   !.awaiting = IF body.reason \in ValidReasons
                                THEN @ \cup {Len(tracker.received) + 1} ELSE @]
  /\ UNCHANGED <<sessionVars, waitVars, startCall, resumeCall, probe, stopCall,
                  inspectVars>>

\* getCallStack returns (or throws) in call k: the rest of onDidSendMessage
\* runs and fires the event.  The lookups of one session are taken to return
\* in the order they were started (one adapter answering in order); those of
\* different sessions return in any order
\* (mutant: when getCallStack throws the error is logged and nothing is fired)
CallStackReturnsSilentOnThrow(k, cs) ==
  /\ k \in tracker.awaiting
  /\ \A j \in tracker.awaiting :
       tracker.received[j].session = tracker.received[k].session => k <= j
  /\ LET event == StoppedEvent(SessionOf(tracker.received[k].session),
                               tracker.received[k].body, cs) IN
       IF cs = "throws"
       THEN /\ tracker' = [tracker EXCEPT !.awaiting = @ \ {k}]
            /\ UNCHANGED <<promise, stoppedListeners, terminateListeners, result,
                            firstOutcome>>
       ELSE /\ tracker' = [tracker EXCEPT
                             !.awaiting = @ \ {k},
                             !.fired = Append(@, k),
                             !.events = Append(@, [lookup |-> cs, event |-> event])]
            /\ PublishStopped(event)
  /\ UNCHANGED <<sessionVars, timers, waitParams, startCall, resumeCall, probe,
                  stopCall, inspectVars>>

CallStackReturns(k, cs) ==
  /\ k \in tracker.awaiting
  /\ \A j \in tracker.awaiting :
       tracker.received[j].session = tracker.received[k].session => k <= j
  /\ LET event == StoppedEvent(SessionOf(tracker.received[k].session),
                               tracker.received[k].body, cs) IN
       /\ tracker' = [tracker EXCEPT
                        !.awaiting = @ \ {k},
                        !.fired = Append(@, k),
                        !.events = Append(@, [lookup |-> cs, event |-> event])]
       /\ PublishStopped(event)
  /\ UNCHANGED <<sessionVars, timers, waitParams, startCall, resumeCall, probe,
                  stopCall, inspectVars>>

\* onDidSendMessage for a message that is not a 'stopped' event: it is logged
TrackerLogs(id, message) ==
  /\ backend[id] = "live"
  /\ Len(tracker.received) < MaxMessages
  /\ tracker' = [tracker EXCEPT
                   !.received = Append(@, [session |-> id, message |-> message])]
  /\ UNCHANGED <<sessionVars, waitVars, startCall, resumeCall, probe, stopCall,
                  inspectVars>>

NextTracker ==
  \/ \E id \in SessionIds : SessionLaunches(id)
  \/ \E id \in SessionIds : OnDidStartDebugSession(id)
  \/ \E id \in SessionIds : OnDidTerminateDebugSession(id)
  \/ \E id \in SessionIds, body \in StoppedBodies : TrackerReceives(id, body)
  \/ \E k \in 1..MaxMessages, cs \in CallStackOutcomes : CallStackReturns(k, cs)
  \/ CallWaitForBreakpointHit([sessionName |-> "Run test.ps1"])
  \/ \E w \in Waits : TimerFires(w)

SpecTracker == Init /\ [][NextTracker]_vars

\* 'stopped' bodies with and without a description, and other messages
TrackerBodies ==
  StoppedBodies \cup
    { [reason |-> "exception", threadId |-> 1, description |-> "boom", text |-> "at f"],
      [reason |-> "exception", threadId |-> 1],
      [reason |-> "step", threadId |-> 2] }

OtherMessages ==
  { [type |-> "event", event |-> "output"],
    [type |-> "response", command |-> "stackTrace"] }

InitMessages ==
  /\ activeSessions = <<SessionOf("s3"), SessionOf("s1")>>
  /\ backend = [id \in SessionIds |-> IF id = "s2" THEN "idle" ELSE "live"]
  /\ InitWaits
  /\ InitCalls

NextMessages ==
  \/ \E id \in SessionIds, body \in TrackerBodies : TrackerReceives(id, body)
  \/ \E id \in SessionIds, message \in OtherMessages : TrackerLogs(id, message)
  \/ \E k \in 1..MaxMessages, cs \in CallStackOutcomes : CallStackReturns(k, cs)
  \/ CallWaitForBreakpointHit([sessionName |-> "Run test.ps1"])
  \/ \E w \in Waits : TimerFires(w)

SpecMessages == InitMessages /\ [][NextMessages]_vars

-----------------------------------------------------------------------------
(* getStackFrameVariables *)

TextResult(text, isError) ==
  [content |-> <<[type |-> "text", text |-> text]>>, isError |-> isError]

JsonResult(json) ==
  [content |-> <<[type |-> "json", json |-> json]>>, isError |-> FALSE]

HasFilter(p) == Truthy(p, "filter")

RetryIfEmpty(p) == "retryIfEmpty" \in DOMAIN p /\ p.retryIfEmpty

\* (mutant: the matches are appended to the list instead of replacing it)
FilterVariablesAppending(items, pattern) ==
  items \o SelectSeq(items, LAMBDA v : RegExpTest(pattern, v.name))

\* response.variables.filter(variable => filterRegex.test(variable.name))
FilterVariables(items, pattern) ==
  SelectSeq(items, LAMBDA v : RegExpTest(pattern, v.name))

\* `!response || !response.variables || !Array.isArray(response.variables)`
InvalidVariablesResponse(response) ==
  \/ response.type = "undefined"
  \/ "variables" \notin DOMAIN response
  \/ Falsy(response.variables)
  \/ response.variables.type # "array"

\* `!scopes || !scopes.scopes || !Array.isArray(scopes.scopes)`
InvalidScopesResponse(response) ==
  \/ response.type = "undefined"
  \/ "scopes" \notin DOMAIN response
  \/ Falsy(response.scopes)
  \/ response.scopes.type # "array"

\* (mutant: a failing scope is returned empty, with no error recorded)
ScopeEntryWithoutError(scope, p, a) ==
  LET response == a.variables[scope.variablesReference] IN
    IF scope.variablesReference = 0 \/ "throws" \in DOMAIN response
       \/ InvalidVariablesResponse(response)
    THEN [scopeName |-> scope.name, variables |-> <<>>]
    ELSE [scopeName |-> scope.name,
          variables |-> IF HasFilter(p) /\ IsValidPattern(p.filter)
                        THEN FilterVariables(response.variables.items, p.filter)
                        ELSE response.variables.items]

\* (mutant: a filter that is no valid pattern is not applied)
ScopeEntryIgnoringInvalidFilter(scope, p, a) ==
  IF scope.variablesReference = 0
  THEN [scopeName |-> scope.name, variables |-> <<>>]
  ELSE LET response == a.variables[scope.variablesReference] IN
    IF "throws" \in DOMAIN response
    THEN [scopeName |-> scope.name, variables |-> <<>>,
          error |-> "Error getting variables: " \o response.throws]
    ELSE IF InvalidVariablesResponse(response)
    THEN [scopeName |-> scope.name, variables |-> <<>>,
          error |-> "Invalid variables response from debug adapter for scope " \o scope.name]
    ELSE IF HasFilter(p) /\ IsValidPattern(p.filter)
    THEN [scopeName |-> scope.name,
          variables |-> FilterVariables(response.variables.items, p.filter)]
    ELSE [scopeName |-> scope.name, variables |-> response.variables.items]

\* what the callback of scopes.scopes.map returns for one scope
ScopeEntry(scope, p, a) ==
  IF scope.variablesReference = 0
  THEN [scopeName |-> scope.name, variables |-> <<>>]
  ELSE LET response == a.variables[scope.variablesReference] IN
    IF "throws" \in DOMAIN response
    THEN [scopeName |-> scope.name, variables |-> <<>>,
          error |-> "Error getting variables: " \o response.throws]
    ELSE IF InvalidVariablesResponse(response)
    THEN [scopeName |-> scope.name, variables |-> <<>>,
          error |-> "Invalid variables response from debug adapter for scope " \o scope.name]
    ELSE IF HasFilter(p)
    THEN IF IsValidPattern(p.filter)
         THEN [scopeName |-> scope.name,
               variables |-> FilterVariables(response.variables.items, p.filter)]
         ELSE [scopeName |-> scope.name, variables |-> <<>>,
               error |-> "Error getting variables: " \o SyntaxErrorMessage(p.filter)]
    ELSE [scopeName |-> scope.name, variables |-> response.variables.items]

\* (mutant: every scope is queried, reference 0 included)
ScopeRequestsForEveryScope(session, scopes) ==
  [i \in 1..Len(scopes) |-> VariablesRequest(session, scopes[i].variablesReference)]

\* the 'variables' requests of the scopes, in the order of the scopes
RECURSIVE ScopeRequests(_, _)
ScopeRequests(session, scopes) ==
  IF scopes = <<>> THEN <<>>
  ELSE (IF Head(scopes).variablesReference = 0 THEN <<>>
        ELSE <<VariablesRequest(session, Head(scopes).variablesReference)>>)
       \o ScopeRequests(session, Tail(scopes))

\* the positions of the scopes whose variablesReference is `ref`
RECURSIVE WithReferenceFrom(_, _, _)
WithReferenceFrom(scopes, ref, i) ==
  IF i > Len(scopes) THEN <<>>
  ELSE (IF scopes[i].variablesReference = ref THEN <<i>> ELSE <<>>)
       \o WithReferenceFrom(scopes, ref, i + 1)

WithReference(scopes, ref) == WithReferenceFrom(scopes, ref, 1)

RECURSIVE Answered(_, _)
Answered(scopes, order) ==
  IF order = <<>> THEN <<>>
  ELSE WithReference(scopes, Head(order)) \o Answered(scopes, Tail(order))

\* the positions of the scopes in the order their map callbacks finish: a
\* scope with reference 0 returns without awaiting, the others return when the
\* adapter answers their request (all requests are out by then)
Completion(scopes, a) == WithReference(scopes, 0) \o Answered(scopes, a.order)

\* (mutant: the results are collected in the order the promises settle)
PromiseAllAsSettled(values, completion) ==
  [k \in 1..Len(completion) |-> values[completion[k]]]

\* Promise.all: the result of each promise is stored at the index of that
\* promise when it settles
PromiseAll(values, completion) ==
  [i \in 1..Len(values) |->
     IF \E k \in 1..Len(completion) : completion[k] = i
     THEN values[i] ELSE [settled |-> FALSE]]

\* await Promise.all(scopes.scopes.map(async scope => ...))
VariablesByScope(scopes, p, a) ==
  PromiseAll([i \in 1..Len(scopes) |-> ScopeEntry(scopes[i], p, a)],
             Completion(scopes, a))

RECURSIVE TotalVars(_)
TotalVars(variablesByScope) ==
  IF variablesByScope = <<>> THEN 0
  ELSE Len(Head(variablesByScope).variables) + TotalVars(Tail(variablesByScope))

Snapshot(session, p, variablesByScope) ==
  [sessionId |-> p.sessionId, frameId |-> p.frameId, threadId |-> p.threadId,
   variablesByScope |-> variablesByScope,
   filter |-> IF HasFilter(p) THEN p.filter ELSE Undefined,
   debuggerType |-> SessionType(session)]

\* (mutant: the retry keeps the filter)
RetryParamsKeepingFilter(p) ==
  [sessionId |-> p.sessionId, frameId |-> p.frameId, threadId |-> p.threadId,
   filter |-> p.filter, retryIfEmpty |-> FALSE]

\* (mutant: the call hands itself the parameters it was given)
RetryParamsUnchanged(p) == p

\* what a call with an empty filtered assembly and retryIfEmpty hands to itself
RetryParams(p) ==
  [sessionId |-> p.sessionId, frameId |-> p.frameId, threadId |-> p.threadId,
   retryIfEmpty |-> FALSE]

\* (mutant: an unknown id falls back to the first registered session)
FindSessionByIdOrFirst(sessionId, sessions) ==
  IF Find(sessions, {s \in SessionPool : s.id = sessionId}) # NoSession
  THEN Find(sessions, {s \in SessionPool : s.id = sessionId})
  ELSE IF Len(sessions) > 0 THEN sessions[1] ELSE NoSession

\* activeSessions.find(s => s.id === sessionId)
FindSessionById(sessionId, sessions) ==
  Find(sessions, {s \in StopPool : s.id = sessionId})

\* (mutant: an invalid scopes response yields a snapshot without scopes)
InvalidScopesResultPartial(session, p) ==
  JsonResult(Snapshot(session, p, <<>>))

InvalidScopesResult(session, p) ==
  TextResult("Invalid scopes response from debug adapter. This may be a limitation of the "
             \o SessionType(session) \o " debug adapter.", TRUE)

\* one run of the function body up to its return or its recursive call:
\* the requests it sends and either the result or the wish to retry
Attempt(p, sessions, a) ==
  LET session == FindSessionById(p.sessionId, sessions) IN
  IF session = NoSession
  THEN [requests |-> <<>>, retry |-> FALSE,
        result |-> TextResult("No debug session found with ID '" \o p.sessionId \o "'.", TRUE)]
  ELSE IF "throws" \in DOMAIN a.scopes
  THEN [requests |-> <<ScopesRequest(session, p.frameId)>>, retry |-> FALSE,
        result |-> TextResult("Error getting variables: " \o a.scopes.throws
                              \o ". This may be a limitation of the "
                              \o SessionType(session) \o " debug adapter.", TRUE)]
  ELSE IF InvalidScopesResponse(a.scopes)
  THEN [requests |-> <<ScopesRequest(session, p.frameId)>>, retry |-> FALSE,
        result |-> InvalidScopesResult(session, p)]
  ELSE LET scopes == a.scopes.scopes.items
           variablesByScope == VariablesByScope(scopes, p, a)
       IN [requests |-> <<ScopesRequest(session, p.frameId)>> \o ScopeRequests(session, scopes),
           retry |-> RetryIfEmpty(p) /\ HasFilter(p) /\ TotalVars(variablesByScope) = 0,
           result |-> JsonResult(Snapshot(session, p, variablesByScope))]

\* the whole call when the session list does not change meanwhile
GetStackFrameVariables(p, sessions, a) ==
  IF Attempt(p, sessions, a).retry
  THEN Attempt(RetryParams(p), sessions, a).result
  ELSE Attempt(p, sessions, a).result

VariablesParamSets ==
  { [sessionId |-> id, frameId |-> 10, threadId |-> 1] : id \in {"s1", "nope"} }
  \cup
  { [sessionId |-> "s1", frameId |-> 10, threadId |-> 1, filter |-> f] :
      f \in {"", "a", "ALPHA", "^al", "delta", "node|beta", "("} }
  \cup
  { [sessionId |-> "s1", frameId |-> 10, threadId |-> 1, filter |-> f, retryIfEmpty |-> r] :
      f \in {"a", "delta", "gam", "("}, r \in BOOLEAN }

\* the call runs up to its return or up to the point where it calls itself;
\* `next` is what it hands to itself, `attempts` counts the runs of the body
GetStackFrameVariablesCalled(p) ==
  /\ inspectCall.pc = "idle"
  /\ LET attempt == Attempt(p, activeSessions, adapter) IN
       /\ requests' = requests \o attempt.requests
       /\ inspectCall' =
            IF attempt.retry
            THEN [pc |-> "retrying", params |-> p, attempts |-> 1,
                  next |-> RetryParams(p), first |-> attempt.result]
            ELSE [pc |-> "done", params |-> p, attempts |-> 1,
                  result |-> attempt.result]
  /\ UNCHANGED <<sessionVars, waitVars, callVars, adapter, breakpoints>>

\* the recursive call runs, and returns or calls itself in turn
GetStackFrameVariablesRetries ==
  /\ inspectCall.pc = "retrying"
  /\ inspectCall.attempts < MaxAttempts
  /\ LET attempt == Attempt(inspectCall.next, activeSessions, adapter) IN
       /\ requests' = requests \o attempt.requests
       /\ inspectCall' =
            IF attempt.retry
            THEN [inspectCall EXCEPT !.attempts = @ + 1,
                                     !.next = RetryParams(inspectCall.next)]
            ELSE [pc |-> "done", params |-> inspectCall.params,
                  attempts |-> inspectCall.attempts + 1,
                  first |-> inspectCall.first, result |-> attempt.result]
  /\ UNCHANGED <<sessionVars, waitVars, callVars, adapter, breakpoints>>

InitVariables ==
  /\ activeSessions = <<SessionOf("s3"), SessionOf("s1")>>
  /\ backend = [id \in SessionIds |-> IF id = "s2" THEN "idle" ELSE "live"]
  /\ InitWaits
  /\ startCall = [pc |-> "idle", wait |-> 0, session |-> ""]
  /\ resumeCall = [pc |-> "idle"]
  /\ probe = NoProbe
  /\ tracker = NoTracker
  /\ stopCall = NoCall
  /\ adapter \in Adapters
  /\ requests = <<>>
  /\ inspectCall = NoCall
  /\ breakpoints = ExistingBreakpoints

NextVariables ==
  \/ \E p \in VariablesParamSets : GetStackFrameVariablesCalled(p)
  \/ GetStackFrameVariablesRetries
  \/ \E id \in SessionIds : OnDidTerminateDebugSession(id)

SpecVariables == InitVariables /\ [][NextVariables]_vars

-----------------------------------------------------------------------------
(* resumeDebugSession *)

WorkspaceFolder == "/w"

NewBreakpoints == <<[path |-> "test.ps1", line |-> 4]>>

ResumeParamSets ==
  { [sessionId |-> "s1"],
    [sessionId |-> "s1", waitForStop |-> TRUE],
    [sessionId |-> "test", waitForStop |-> TRUE],
    [sessionId |-> "nope", waitForStop |-> TRUE],
    [sessionId |-> "s1", breakpointConfig |-> [disableExisting |-> TRUE]],
    [sessionId |-> "s1", waitForStop |-> TRUE,
     breakpointConfig |-> [breakpoints |-> NewBreakpoints]],
    [sessionId |-> "nope",
     breakpointConfig |-> [disableExisting |-> TRUE, breakpoints |-> NewBreakpoints]] }

WaitForStop(p) == IF "waitForStop" \in DOMAIN p THEN p.waitForStop ELSE FALSE

\* (mutant: an unknown id falls back to the first registered session)
ResumeSessionOrFirst(p, sessions) ==
  IF Find(sessions, {s \in SessionPool : s.id = p.sessionId}) # NoSession
  THEN Find(sessions, {s \in SessionPool : s.id = p.sessionId})
  ELSE Find(sessions, SessionPool)

\* by id, else a session whose name contains the given string
ResumeSession(p, sessions) ==
  IF Find(sessions, {s \in SessionPool : s.id = p.sessionId}) # NoSession
  THEN Find(sessions, {s \in SessionPool : s.id = p.sessionId})
  ELSE Find(sessions, {s \in SessionPool : Includes(s.name, p.sessionId)})

ContinueRequest(session) ==
  [session |-> session.id, command |-> "continue", args |-> [threadId |-> 0]]

\* new vscode.SourceBreakpoint(new Location(uri, new Position(bp.line - 1, 0)), true, ...)
SourceBreakpoint(bp, workspaceFolder) ==
  [path |-> IF StartsWith(bp.path, "/") THEN bp.path
            ELSE workspaceFolder \o "/" \o bp.path,
   line |-> bp.line - 1, enabled |-> TRUE]

\* the handling of params.breakpointConfig: the breakpoints afterwards, and
\* whether it threw for want of a workspace folder
ConfigureBreakpoints(p, folderOpen, existing) ==
  IF "breakpointConfig" \notin DOMAIN p
  THEN [breakpoints |-> existing, throws |-> FALSE]
  ELSE LET config == p.breakpointConfig
           kept == IF "disableExisting" \in DOMAIN config /\ config.disableExisting
                   THEN <<>> ELSE existing
           adds == "breakpoints" \in DOMAIN config /\ Len(config.breakpoints) > 0
       IN IF ~adds THEN [breakpoints |-> kept, throws |-> FALSE]
          ELSE IF ~folderOpen THEN [breakpoints |-> kept, throws |-> TRUE]
          ELSE [breakpoints |->
                  kept \o [i \in 1..Len(config.breakpoints) |->
                             SourceBreakpoint(config.breakpoints[i], WorkspaceFolder)],
                throws |-> FALSE]

\* ResumeDebugSessionTool.invoke: every content item becomes a text part
LanguageModelToolResult(rawResult) ==
  [parts |-> [i \in 1..Len(rawResult.content) |->
                LET item == rawResult.content[i] IN
                  IF item.type = "json" THEN [value |-> JSONStringify(item.json)]
                  ELSE [value |-> item.text]]]

\* the call returns `ret` and the tool hands it on
ResumeReturns(call, ret) ==
  [call EXCEPT !.pc = "done"] @@ [ret |-> ret, toolResult |-> LanguageModelToolResult(ret)]

SessionNotFound(sessionId) ==
  TextResult("No debug session found with ID '" \o sessionId \o "'.", TRUE)

ResumeError(message) == TextResult("Error resuming debug session: " \o message, TRUE)

\* (mutant: 'continue' is sent with no wait armed)
ResumeCalledWithoutArming(p, folderOpen) ==
  /\ resumeCall.pc = "idle"
  /\ LET session == ResumeSession(p, activeSessions) IN
       IF session = NoSession
       THEN /\ resumeCall' = ResumeReturns([pc |-> "idle", params |-> p, wait |-> 0],
                                           SessionNotFound(p.sessionId))
            /\ UNCHANGED <<requests, breakpoints>>
       ELSE /\ resumeCall' = [pc |-> "continuing", params |-> p, wait |-> 0,
                              session |-> session, request |-> ContinueRequest(session)]
            /\ requests' = Append(requests, ContinueRequest(session))
            /\ UNCHANGED breakpoints
  /\ UNCHANGED <<sessionVars, waitVars, startCall, probe, tracker, stopCall, adapter, inspectCall>>

\* the call up to its first await: session lookup, breakpoint changes, the
\* wait is armed, then the 'continue' request is sent
ResumeCalled(p, folderOpen) ==
  /\ resumeCall.pc = "idle"
  /\ LET session == ResumeSession(p, activeSessions)
         configured == ConfigureBreakpoints(p, folderOpen, breakpoints)
     IN
       IF session = NoSession
       THEN /\ resumeCall' = ResumeReturns([pc |-> "idle", params |-> p, wait |-> 0],
                                           SessionNotFound(p.sessionId))
            /\ UNCHANGED <<waitVars, requests, breakpoints>>
       ELSE IF configured.throws
       THEN /\ resumeCall' =
                 ResumeReturns([pc |-> "idle", params |-> p, wait |-> 0, session |-> session],
                               ResumeError("Cannot determine workspace folder for breakpoint paths"))
            /\ breakpoints' = configured.breakpoints
            /\ UNCHANGED <<waitVars, requests>>
       ELSE /\ breakpoints' = configured.breakpoints
            /\ ArmWait([sessionId |-> p.sessionId, includeTermination |-> TRUE])
            /\ resumeCall' = [pc |-> "continuing", params |-> p,
                              wait |-> Len(waitParams) + 1,
                              session |-> session, request |-> ContinueRequest(session)]
            /\ requests' = Append(requests, ContinueRequest(session))
  /\ UNCHANGED <<sessionVars, startCall, probe, tracker, stopCall, adapter, inspectCall>>

ContinueFailure == "Session is not paused"

Resumed(session) == TextResult("Resumed debug session '" \o session.name \o "'.", FALSE)

\* (mutant: the call awaits the stop whatever waitForStop says)
ContinueRespondsAlwaysAwaiting(ok) ==
  /\ resumeCall.pc = "continuing"
  /\ ok => backend[resumeCall.request.session] = "live"
  /\ resumeCall' =
       LET call == resumeCall @@ [acknowledged |-> ok] IN
       IF ~ok THEN ResumeReturns(call, ResumeError(ContinueFailure))
       ELSE [call EXCEPT !.pc = "awaiting"]
  /\ UNCHANGED <<sessionVars, waitVars, startCall, probe, tracker, stopCall, inspectVars>>

\* the adapter answers the 'continue' request, or the request fails;
\* `acknowledged` keeps which of the two happened
ContinueResponds(ok) ==
  /\ resumeCall.pc = "continuing"
  /\ ok => backend[resumeCall.request.session] = "live"
  /\ resumeCall' =
       LET call == resumeCall @@ [acknowledged |-> ok] IN
       IF ~ok THEN ResumeReturns(call, ResumeError(ContinueFailure))
       ELSE IF WaitForStop(call.params)
       THEN [call EXCEPT !.pc = "awaiting"]
       ELSE ResumeReturns(call, Resumed(call.session))
  /\ UNCHANGED <<sessionVars, waitVars, startCall, probe, tracker, stopCall, inspectVars>>

\* null in place of an object, and in place of a string
Null == [null |-> TRUE]
NullText == "<null>"

CallStackRequest(session) ==
  [session |-> session.id, command |-> "stackTrace", args |-> [threadId |-> 0]]

CallStacks(session) ==
  [callStacks |-> <<[sessionId |-> session.id, sessionName |-> session.name,
                     frames |-> <<TopFrame>>]>>]

\* common.getCallStack({sessionName}): the query it sends and what it returns
GetCallStack(sessionName, sessions, cs) ==
  LET session == Find(sessions, {s \in StopPool : s.name = sessionName}) IN
  IF session = NoSession
  THEN [requests |-> <<>>, throws |-> FALSE,
        result |-> TextResult("No debug session found with name '" \o sessionName \o "'.", TRUE)]
  ELSE IF cs = "throws"
  THEN [requests |-> <<CallStackRequest(session)>>, throws |-> TRUE,
        message |-> "stackTrace failed"]
  ELSE IF cs = "noFrame"
  THEN [requests |-> <<CallStackRequest(session)>>, throws |-> FALSE,
        result |-> TextResult("Error getting call stack", TRUE)]
  ELSE [requests |-> <<CallStackRequest(session)>>, throws |-> FALSE,
        result |-> JsonResult(CallStacks(session))]

StoppedText(info) ==
  "Debug session " \o info.sessionName \o " stopped at " \o
  (IF info.reason = "breakpoint" THEN "a breakpoint" ELSE "due to " \o info.reason) \o "."

\* the requests of a whole getStackFrameVariables call
GetStackFrameVariablesRequests(p, sessions, a) ==
  IF Attempt(p, sessions, a).retry
  THEN Attempt(p, sessions, a).requests \o Attempt(RetryParams(p), sessions, a).requests
  ELSE Attempt(p, sessions, a).requests

\* (mutant: the session is looked up by the event's sessionId)
ResolveVariablesBySessionId(info, filter, sessions, a) ==
  IF ~("frameId" \in DOMAIN info /\ Truthy(info, "sessionId") /\ "threadId" \in DOMAIN info)
  THEN [requests |-> <<>>, variables |-> Null,
        variablesError |-> "Missing required information for variable inspection"]
  ELSE LET activeSession == Find(sessions, {s \in StopPool : s.id = info.sessionId}) IN
       IF activeSession = NoSession
       THEN [requests |-> <<>>, variables |-> Null,
             variablesError |-> "Could not find active session with name: " \o info.sessionName]
       ELSE LET p == [sessionId |-> activeSession.id, frameId |-> info.frameId,
                      threadId |-> info.threadId] @@ filter
                variablesResult == GetStackFrameVariables(p, sessions, a)
            IN [requests |-> GetStackFrameVariablesRequests(p, sessions, a),
                variables |-> IF ~variablesResult.isError
                              THEN variablesResult.content[1].json ELSE Null,
                variablesError |-> IF variablesResult.isError
                                   THEN variablesResult.content[1].text ELSE NullText]

\* (mutant: a failed variables query leaves no error in the reply)
ResolveVariablesDroppingError(info, filter, sessions, a) ==
  IF ~("frameId" \in DOMAIN info /\ Truthy(info, "sessionId") /\ "threadId" \in DOMAIN info)
  THEN [requests |-> <<>>, variables |-> Null,
        variablesError |-> "Missing required information for variable inspection"]
  ELSE LET activeSession == Find(sessions, {s \in StopPool : s.name = info.sessionName}) IN
       IF activeSession = NoSession
       THEN [requests |-> <<>>, variables |-> Null,
             variablesError |-> "Could not find active session with name: " \o info.sessionName]
       ELSE LET p == [sessionId |-> activeSession.id, frameId |-> info.frameId,
                      threadId |-> info.threadId] @@ filter
                variablesResult == GetStackFrameVariables(p, sessions, a)
            IN [requests |-> GetStackFrameVariablesRequests(p, sessions, a),
                variables |-> IF ~variablesResult.isError
                              THEN variablesResult.content[1].json ELSE Null,
                variablesError |-> NullText]

\* the variables part of resolveBreakpointInfo: requests, data and error;
\* `filter` is [filter |-> variableFilter.join('|')], or empty without one
ResolveVariables(info, filter, sessions, a) ==
  IF ~("frameId" \in DOMAIN info /\ Truthy(info, "sessionId") /\ "threadId" \in DOMAIN info)
  THEN [requests |-> <<>>, variables |-> Null,
        variablesError |-> "Missing required information for variable inspection"]
  ELSE LET activeSession == Find(sessions, {s \in StopPool : s.name = info.sessionName}) IN
       IF activeSession = NoSession
       THEN [requests |-> <<>>, variables |-> Null,
             variablesError |-> "Could not find active session with name: " \o info.sessionName]
       ELSE LET p == [sessionId |-> activeSession.id, frameId |-> info.frameId,
                      threadId |-> info.threadId] @@ filter
                variablesResult == GetStackFrameVariables(p, sessions, a)
            IN [requests |-> GetStackFrameVariablesRequests(p, sessions, a),
                variables |-> IF ~variablesResult.isError
                              THEN variablesResult.content[1].json ELSE Null,
                variablesError |-> IF variablesResult.isError
                                   THEN variablesResult.content[1].text ELSE NullText]

\* resolveBreakpointInfo(info): the requests it sends and the reply it builds
ResolveBreakpointInfo(info, filter, sessions, a, cs) ==
  LET callStack == GetCallStack(info.sessionName, sessions, cs) IN
  IF callStack.throws
  THEN [requests |-> callStack.requests,
        result |->
          [content |-> <<[type |-> "text",
                          text |-> "Debug session " \o info.sessionName
                                   \o " stopped successfully."],
                         [type |-> "text",
                          text |-> "Warning: Failed to wait for debug session to stop: "
                                   \o callStack.message]>>,
           isError |-> FALSE]]
  ELSE LET variables == ResolveVariables(info, filter, sessions, a)
           debugInfo ==
             [breakpoint |-> info,
              callStack |-> IF ~callStack.result.isError
                            THEN callStack.result.content[1].json ELSE Null,
              variables |-> variables.variables,
              variablesError |-> variables.variablesError]
       IN [requests |-> callStack.requests \o variables.requests,
           result |-> [content |-> <<[type |-> "text", text |-> StoppedText(info)],
                                     [type |-> "text", text |-> JSONStringify(debugInfo)]>>,
                       isError |-> FALSE]]

TerminatedBeforeStop(session, info) ==
  [content |-> <<[type |-> "text",
                  text |-> "Debug session '" \o session.name
                           \o "' terminated before hitting another breakpoint."],
                 [type |-> "text", text |-> JSONStringify(info)]>>,
   isError |-> FALSE]

\* (mutant: a termination is resolved like a stop)
ResumeOutcomeResolvingAll(stopResult, session, sessions, a, cs) ==
  IF stopResult.isError
  THEN [requests |-> <<>>, result |-> stopResult]
  ELSE ResolveBreakpointInfo(JSONParse(stopResult.content[1].text), NoParams, sessions, a, cs)

\* what resume makes of the awaited wait's result
ResumeOutcome(stopResult, session, sessions, a, cs) ==
  IF ~stopResult.isError /\ stopResult.content[1].type = "text"
  THEN LET info == JSONParse(stopResult.content[1].text) IN
         IF info.reason = "terminated"
         THEN [requests |-> <<>>, result |-> TerminatedBeforeStop(session, info)]
         ELSE ResolveBreakpointInfo(info, NoParams, sessions, a, cs)
  ELSE [requests |-> <<>>, result |-> stopResult]

\* the awaited wait has returned
ResumeAwaitsStop(cs) ==
  /\ resumeCall.pc = "awaiting"
  /\ resumeCall.wait \in Waits
  /\ result[resumeCall.wait] # NoResult
  /\ LET outcome == ResumeOutcome(result[resumeCall.wait], resumeCall.session,
                                  activeSessions, adapter, cs) IN
       /\ resumeCall' = ResumeReturns(resumeCall, outcome.result)
       /\ requests' = requests \o outcome.requests
  /\ UNCHANGED <<sessionVars, waitVars, startCall, probe, tracker, stopCall, adapter, inspectCall, breakpoints>>

InitResume ==
  /\ activeSessions = <<>>
  /\ backend = [id \in SessionIds |-> "idle"]
  /\ InitWaits
  /\ startCall = [pc |-> "idle", wait |-> 0, session |-> ""]
  /\ resumeCall = [pc |-> "idle"]
  /\ probe = NoProbe
  /\ tracker = NoTracker
  /\ stopCall = NoCall
  /\ adapter \in {DefaultAdapter, AdapterWith(Throws("Unable to retrieve scopes"),
                                              JsUndefined, JsUndefined)}
  /\ requests = <<>>
  /\ inspectCall = NoCall
  /\ breakpoints = ExistingBreakpoints

NextResume ==
  \/ \E p \in ResumeParamSets, folderOpen \in BOOLEAN : ResumeCalled(p, folderOpen)
  \/ \E ok \in BOOLEAN : ContinueResponds(ok)
  \/ \E cs \in CallStackOutcomes : ResumeAwaitsStop(cs)
  \/ \E w \in Waits : TimerFires(w)
  \/ \E id \in SessionIds :
       OnDidSendMessage(id, [reason |-> "breakpoint", threadId |-> 1], "noFrame")
  \/ Environment

SpecResume == InitResume /\ [][NextResume]_vars

-----------------------------------------------------------------------------
(* startDebuggingAndWaitForStop *)

DefaultTimeoutSeconds == 60

\* nameOrConfiguration is a string (written [string |-> ...]) or a
\* DebugConfiguration object
StartParamSets ==
  { [nameOrConfiguration |-> [string |-> "Run test.ps1"]],
    [nameOrConfiguration |-> [string |-> "Run test.ps1"], timeout_seconds |-> 1],
    [nameOrConfiguration |-> [name |-> "Run test.ps1 2", sessionId |-> "cfg-2"],
     variableFilter |-> <<"alpha", "gamma">>] }

IsString(v) == "string" \in DOMAIN v

ConfigName(p) ==
  IF IsString(p.nameOrConfiguration) THEN p.nameOrConfiguration.string
  ELSE p.nameOrConfiguration.name

TimeoutSeconds(p) ==
  IF "timeout_seconds" \in DOMAIN p THEN p.timeout_seconds ELSE DefaultTimeoutSeconds

\* the sessions the backend may create for a configuration: one of that name,
\* or a child it renames by appending a counter
LaunchedBy(p) == { id \in SessionIds : StartsWith(SessionOf(id).name, ConfigName(p)) }

\* the call: workspace folder checks, then the breakpoints are set up
StartCalled(p, folderOpen) ==
  /\ startCall.pc = "idle"
  /\ startCall' = IF folderOpen
                  THEN [pc |-> "preparing", params |-> p, wait |-> 0, session |-> ""]
                  ELSE [pc |-> "threwNoFolder", params |-> p, wait |-> 0, session |-> ""]
  /\ UNCHANGED <<sessionVars, waitVars, resumeCall, probe, tracker, stopCall, inspectVars>>

\* (mutant: the session is started with no wait armed)
StartsWithoutArming ==
  /\ startCall.pc = "preparing"
  /\ startCall' = [startCall EXCEPT !.pc = "starting"]
  /\ UNCHANGED <<sessionVars, waitVars, resumeCall, probe, tracker, stopCall, inspectVars>>

\* the wait is armed, then vscode.debug.startDebugging is called
StartArmsAndStarts ==
  /\ startCall.pc = "preparing"
  /\ ArmWait([sessionName |-> ConfigName(startCall.params),
              timeout |-> TimeoutSeconds(startCall.params) * 1000])
  /\ startCall' = [startCall EXCEPT !.pc = "starting", !.wait = Len(waitParams) + 1]
  /\ UNCHANGED <<sessionVars, resumeCall, probe, tracker, stopCall, inspectVars>>

\* the backend creates the session asked for
StartedSessionLaunches(id) ==
  /\ startCall.pc = "starting"
  /\ startCall.session = ""
  /\ id \in LaunchedBy(startCall.params)
  /\ backend[id] = "idle"
  /\ backend' = [backend EXCEPT ![id] = "live"]
  /\ startCall' = [startCall EXCEPT !.session = id]
  /\ UNCHANGED <<activeSessions, waitVars, resumeCall, probe, tracker, stopCall, inspectVars>>

\* startDebugging resolves: true once the session exists, false if none was created
StartDebuggingReturns(success) ==
  /\ startCall.pc = "starting"
  /\ success <=> startCall.session # ""
  /\ startCall' = [startCall EXCEPT !.pc = IF success THEN "awaiting" ELSE "threwStartFailed"]
  /\ UNCHANGED <<sessionVars, waitVars, resumeCall, probe, tracker, stopCall, inspectVars>>

\* Array.prototype.join
RECURSIVE Join(_, _)
Join(items, separator) ==
  IF items = <<>> THEN ""
  ELSE IF Len(items) = 1 THEN items[1]
  ELSE items[1] \o separator \o Join(Tail(items), separator)

\* `filter: variableFilter ? variableFilter.join('|') : undefined`
VariableFilter(p) ==
  IF "variableFilter" \in DOMAIN p THEN [filter |-> Join(p.variableFilter, "|")]
  ELSE NoParams

\* (mutant: an error result of the wait is resolved like a stop of the
\* configured session)
StartOutcomeResolvingErrors(stopResult, p, sessions, a, cs) ==
  IF ~stopResult.isError
  THEN ResolveBreakpointInfo(JSONParse(stopResult.content[1].text), VariableFilter(p),
                             sessions, a, cs)
  ELSE ResolveBreakpointInfo([sessionId |-> "", sessionName |-> ConfigName(p),
                              threadId |-> 0, reason |-> "timeout"],
                             VariableFilter(p), sessions, a, cs)

\* (mutant: a termination is answered as an error, as a failed start)
StartOutcomeFailingOnTermination(stopResult, p, sessions, a, cs) ==
  IF ~stopResult.isError /\ stopResult.content[1].type = "text"
  THEN IF JSONParse(stopResult.content[1].text).reason = "terminated"
       THEN [requests |-> <<>>,
             result |-> TextResult("Debug session '" \o ConfigName(p)
                                   \o "' terminated before hitting a breakpoint.", TRUE)]
       ELSE ResolveBreakpointInfo(JSONParse(stopResult.content[1].text), VariableFilter(p),
                                  sessions, a, cs)
  ELSE [requests |-> <<>>, result |-> stopResult]

\* what start makes of the awaited wait's result: a stop or a termination
\* goes to resolveBreakpointInfo, an error result is passed on
StartOutcome(stopResult, p, sessions, a, cs) ==
  IF ~stopResult.isError /\ stopResult.content[1].type = "text"
  THEN ResolveBreakpointInfo(JSONParse(stopResult.content[1].text), VariableFilter(p),
                             sessions, a, cs)
  ELSE [requests |-> <<>>, result |-> stopResult]

StartTimedOut(p) ==
  TextResult("Debug session '" \o ConfigName(p) \o "' timed out after "
             \o ToString(TimeoutSeconds(p))
             \o " seconds waiting for a breakpoint to be hit.", TRUE)

\* `try { breakpointHitResult = await stopPromise } catch (error)`: a
\* rejection whose message includes 'Timeout' is answered in the catch, any
\* other is thrown again
AwaitStopPromise(stopPromise, p, sessions, a, cs) ==
  IF stopPromise.state = "rejected"
  THEN IF Includes(stopPromise.message, "Timeout")
       THEN [pc |-> "done", caught |-> TRUE, requests |-> <<>>, result |-> StartTimedOut(p)]
       ELSE [pc |-> "threwWaitError", caught |-> TRUE, requests |-> <<>>,
             result |-> TextResult(stopPromise.message, TRUE)]
  ELSE [pc |-> "done", caught |-> FALSE]
       @@ StartOutcome(stopPromise.value, p, sessions, a, cs)

\* the awaited wait has returned
StartAwaitsStop(cs) ==
  /\ startCall.pc = "awaiting"
  /\ startCall.wait \in Waits
  /\ result[startCall.wait] # NoResult
  /\ LET outcome == AwaitStopPromise(StopPromise(promise[startCall.wait]),
                                     startCall.params, activeSessions, adapter, cs) IN
       /\ startCall' =
            [pc |-> outcome.pc, params |-> startCall.params, wait |-> startCall.wait,
             session |-> startCall.session, ret |-> outcome.result,
             caught |-> outcome.caught]
       /\ requests' = requests \o outcome.requests
  /\ UNCHANGED <<sessionVars, waitVars, resumeCall, probe, tracker, stopCall, adapter, inspectCall, breakpoints>>

NextStart ==
  \/ \E p \in StartParamSets, folderOpen \in BOOLEAN : StartCalled(p, folderOpen)
  \/ StartArmsAndStarts
  \/ \E id \in SessionIds : StartedSessionLaunches(id)
  \/ \E success \in BOOLEAN : StartDebuggingReturns(success)
  \/ \E cs \in CallStackOutcomes : StartAwaitsStop(cs)
  \/ \E w \in Waits : TimerFires(w)
  \/ Environment

SpecStart == Init /\ [][NextStart]_vars

-----------------------------------------------------------------------------
(* One tool call per behaviour, resumeDebugSession or                       *)
(* startDebuggingAndWaitForStop, with every timer that is set expiring in    *)
(* the end                                                                   *)

NextCallers ==
  \/ startCall.pc = "idle" /\ NextResume
  \/ resumeCall.pc = "idle" /\ NextStart

SpecCallers == InitResume /\ [][NextCallers]_vars

FairCallers == SpecCallers /\ \A w \in 1..MaxWaits : WF_vars(TimerFires(w))

-----------------------------------------------------------------------------
(* stopDebugSession *)

\* a second session of the name of s1
StopRegistries ==
  { q \in UNION { [1..n -> StopPool] : n \in 0..3 } :
      \A i, j \in DOMAIN q : i # j => q[i] # q[j] }

StopNames == {"Run test.ps1", "Run test.ps1 2", "Run", "test", "NotRunning"}

StopRequest(session) == [session |-> session.id, command |-> "stopDebugging"]

\* (mutant: sessions whose name starts with the given name match as well)
MatchingSessionsByPrefix(sessionName, sessions) ==
  SelectSeq(sessions, LAMBDA session : StartsWith(session.name, sessionName))

\* activeSessions.filter(session => session.name === sessionName)
MatchingSessions(sessionName, sessions) ==
  SelectSeq(sessions, LAMBDA session : session.name = sessionName)

\* the call up to its return or its first await; `registered` keeps the
\* session list the call saw
StopDebugSessionCalled(sessionName) ==
  /\ stopCall.pc = "idle"
  /\ LET matchingSessions == MatchingSessions(sessionName, activeSessions) IN
       IF Len(matchingSessions) = 0
       THEN /\ stopCall' =
                 [pc |-> "done", sessionName |-> sessionName, registered |-> activeSessions,
                  ret |-> TextResult("No debug session(s) found with name '"
                                     \o sessionName \o "'.", TRUE)]
            /\ UNCHANGED requests
       ELSE /\ stopCall' =
                 [pc |-> "stopping", sessionName |-> sessionName,
                  registered |-> activeSessions, remaining |-> Tail(matchingSessions)]
            /\ requests' = Append(requests, StopRequest(Head(matchingSessions)))
  /\ UNCHANGED <<sessionVars, waitVars, startCall, resumeCall, probe, tracker, adapter,
                 inspectCall, breakpoints>>

\* vscode.debug.stopDebugging has resolved: the next matching session is
\* stopped, or the call returns
StopDebuggingReturns ==
  /\ stopCall.pc = "stopping"
  /\ IF stopCall.remaining = <<>>
     THEN /\ stopCall' =
               [pc |-> "done", sessionName |-> stopCall.sessionName,
                registered |-> stopCall.registered,
                ret |-> TextResult("Stopped debug session(s) with name '"
                                   \o stopCall.sessionName \o "'.", FALSE)]
          /\ UNCHANGED requests
     ELSE /\ stopCall' = [stopCall EXCEPT !.remaining = Tail(@)]
          /\ requests' = Append(requests, StopRequest(Head(stopCall.remaining)))
  /\ UNCHANGED <<sessionVars, waitVars, startCall, resumeCall, probe, tracker, adapter,
                 inspectCall, breakpoints>>

\* a session asked to stop ends and leaves the session list
StoppedSessionEnds(id) ==
  /\ \E i \in 1..Len(requests) : requests[i] = [session |-> id, command |-> "stopDebugging"]
  /\ IsRegistered(id)
  /\ backend' = [backend EXCEPT ![id] = "ended"]
  /\ activeSessions' = SelectSeq(activeSessions, LAMBDA s : s.id # id)
  /\ UNCHANGED <<waitVars, callVars, inspectVars>>

\* a further session of the pool is registered
StopPoolSessionStarts(session) ==
  /\ stopCall.pc = "stopping"
  /\ backend[session.id] = "idle"
  /\ backend' = [backend EXCEPT ![session.id] = "live"]
  /\ activeSessions' = Append(activeSessions, session)
  /\ UNCHANGED <<waitVars, callVars, inspectVars>>

InitStop ==
  /\ activeSessions \in StopRegistries
  /\ backend = [id \in {s.id : s \in StopPool} |->
                  IF IsRegistered(id) THEN "live" ELSE "idle"]
  /\ InitWaits
  /\ InitCalls

NextStop ==
  \/ \E sessionName \in StopNames : StopDebugSessionCalled(sessionName)
  \/ StopDebuggingReturns
  \/ \E id \in {s.id : s \in StopPool} : StoppedSessionEnds(id)
  \/ \E session \in StopPool : StopPoolSessionStarts(session)

SpecStop == InitStop /\ [][NextStop]_vars

-----------------------------------------------------------------------------
(* resolveBreakpointInfo applied to the outcomes a wait can return, over     *)
(* registries in which two sessions may carry one name                      *)

\* the BreakpointHitInfo parsed from a wait's result: a stop with or without
\* a frame, or a termination
BreakpointHitInfos ==
  { JSONParse(JSONStringify(StoppedEvent(session, [reason |-> "breakpoint", threadId |-> 1], cs))) :
      session \in StopPool, cs \in {"frame", "noFrame"} }
  \cup { TerminatedInfo(TerminatedEvent(session)) : session \in {SessionOf("s1")} }

InfoFilters == { NoParams, [filter |-> "alpha|gamma"] }

ResolveBreakpointInfoCalled(info, filter, cs) ==
  /\ inspectCall.pc = "idle"
  /\ LET outcome == ResolveBreakpointInfo(info, filter, activeSessions, adapter, cs) IN
       /\ inspectCall' = [pc |-> "resolved", info |-> info, filter |-> filter,
                          ret |-> outcome.result]
       /\ requests' = requests \o outcome.requests
  /\ UNCHANGED <<sessionVars, waitVars, callVars, adapter, breakpoints>>

InitInfo ==
  /\ activeSessions \in StopRegistries
  /\ backend = [id \in {s.id : s \in StopPool} |->
                  IF IsRegistered(id) THEN "live" ELSE "idle"]
  /\ InitWaits
  /\ startCall = [pc |-> "idle", wait |-> 0, session |-> ""]
  /\ resumeCall = [pc |-> "idle"]
  /\ probe = NoProbe
  /\ tracker = NoTracker
  /\ stopCall = NoCall
  /\ adapter \in {DefaultAdapter, AdapterWith(Throws("Unable to retrieve scopes"),
                                              JsUndefined, JsUndefined)}
  /\ requests = <<>>
  /\ inspectCall = NoCall
  /\ breakpoints = ExistingBreakpoints

NextInfo ==
  \E info \in BreakpointHitInfos, filter \in InfoFilters, cs \in CallStackOutcomes :
    ResolveBreakpointInfoCalled(info, filter, cs)

SpecInfo == InitInfo /\ [][NextInfo]_vars

-----------------------------------------------------------------------------
(* ExpandVariableTool *)

\* the variables the adapters of this part answer with: `item` is named by
\* its evaluateName, and `node` is visible in both scopes
ExpandLocals ==
  <<Variable("alpha", "1", 0), Variable("node", "Node", 7),
    Variable("item", "Item", 7) @@ [evaluateName |-> "this.item"]>>
ExpandGlobals ==
  <<Variable("gamma", "3", 0), Variable("node", "Other", 8), Variable("left", "Node", 8)>>

ExpandAdapterWith(scopes, local, global, node) ==
  [scopes |-> scopes,
   variables |-> (1 :> local @@ 2 :> global @@ 7 :> node
                  @@ 8 :> VariablesOk(LeftChildren)),
   order |-> <<1, 2>>]

ExpandAdapters ==
  { ExpandAdapterWith(sr, l, g, n) :
      sr \in { Throws("Thread is not paused"),
               [type |-> "object", scopes |-> JsArray(<<Scope("Local", 1), Scope("Global", 2)>>)],
               [type |-> "object", scopes |-> JsArray(<<Scope("Registers", 0), Scope("Local", 1),
                                                        Scope("Global", 2)>>)] },
      l \in { VariablesOk(ExpandLocals), VariablesOk(<<>>),
              Throws("Unable to retrieve variables") },
      g \in { VariablesOk(ExpandGlobals), Throws("Unable to retrieve variables") },
      n \in { VariablesOk(NodeChildren), VariablesOk(<<>>) } }

VariableNames == {"node", "alpha", "gamma", "this.item", "item", "left", "missing"}

\* the adapter's answer to a 'variables' request
VariablesResponse(a, ref) ==
  IF ref \in DOMAIN a.variables THEN a.variables[ref]
  ELSE Throws("Invalid variablesReference")

\* the variables of an answer, none when the request failed or the answer
\* carries no list
ResponseVariables(response) ==
  IF "throws" \in DOMAIN response THEN <<>>
  ELSE IF InvalidVariablesResponse(response) THEN <<>>
  ELSE response.variables.items

\* `v.evaluateName || v.name`
MatchName(v) ==
  IF Truthy(v, "evaluateName") THEN v.evaluateName ELSE v.name

\* variables.find(v => (v.evaluateName || v.name) === variableName)
FindVariable(items, variableName) ==
  Find(items, {items[i] : i \in {j \in 1..Len(items) : MatchName(items[j]) = variableName}})

\* DAPHelpers.createErrorResult / createSuccessResult
ErrorResult(message) == [isError |-> TRUE, text |-> message]
SuccessResult(text) == [isError |-> FALSE, text |-> text]

\* DAPHelpers' VariableInfo of a protocol variable
VariableInfo(v) ==
  [name |-> v.name, value |-> v.value, isExpandable |-> v.variablesReference # 0]

\* DAPHelpers.getDebugContext: the paused thread's top frame and its scopes,
\* null when they cannot be had
DebugContextRequests(session) ==
  <<CallStackRequest(session), ScopesRequest(session, TopFrame.id)>>

GetDebugContext(a) ==
  IF "throws" \in DOMAIN a.scopes THEN Null
  ELSE IF InvalidScopesResponse(a.scopes) THEN Null
  ELSE [frame |-> TopFrame, scopes |-> a.scopes.scopes.items]

\* DAPHelpers.findVariableInScopes: the scopes are scanned in order, each
\* with one 'variables' request, and the first scope with a match wins
RECURSIVE FindVariableInScopes(_, _, _, _)
FindVariableInScopes(session, scopes, variableName, a) ==
  IF scopes = <<>> THEN [requests |-> <<>>, found |-> Null]
  ELSE LET scope == Head(scopes)
           request == VariablesRequest(session, scope.variablesReference)
           items == ResponseVariables(VariablesResponse(a, scope.variablesReference))
           match == FindVariable(items, variableName)
           rest == FindVariableInScopes(session, Tail(scopes), variableName, a)
       IN IF match # UndefinedObject
          THEN [requests |-> <<request>>,
                found |-> [variable |-> VariableInfo(match), scopeName |-> scope.name]]
          ELSE [requests |-> <<request>> \o rest.requests, found |-> rest.found]

\* (mutant: the protocol variable is looked up by its name alone)
RECURSIVE GetOriginalVariableByName(_, _, _, _)
GetOriginalVariableByName(session, scopes, variableName, a) ==
  IF scopes = <<>> THEN [requests |-> <<>>, variable |-> Null]
  ELSE LET scope == Head(scopes)
           request == VariablesRequest(session, scope.variablesReference)
           items == ResponseVariables(VariablesResponse(a, scope.variablesReference))
           foundVariable ==
             Find(items, {items[i] : i \in {j \in 1..Len(items) : items[j].name = variableName}})
           rest == GetOriginalVariableByName(session, Tail(scopes), variableName, a)
       IN IF foundVariable # UndefinedObject
          THEN [requests |-> <<request>>, variable |-> foundVariable]
          ELSE [requests |-> <<request>> \o rest.requests, variable |-> rest.variable]

\* getOriginalVariable: the scopes are queried again, a failing scope is
\* skipped, and the first protocol variable with the name is returned
RECURSIVE GetOriginalVariable(_, _, _, _)
GetOriginalVariable(session, scopes, variableName, a) ==
  IF scopes = <<>> THEN [requests |-> <<>>, variable |-> Null]
  ELSE LET scope == Head(scopes)
           request == VariablesRequest(session, scope.variablesReference)
           items == ResponseVariables(VariablesResponse(a, scope.variablesReference))
           foundVariable == FindVariable(items, variableName)
           rest == GetOriginalVariable(session, Tail(scopes), variableName, a)
       IN IF foundVariable # UndefinedObject
          THEN [requests |-> <<request>>, variable |-> foundVariable]
          ELSE [requests |-> <<request>> \o rest.requests, variable |-> rest.variable]

\* DAPHelpers.getVariablesFromReference: one 'variables' request, answered
\* with the VariableInfo of each child
GetVariablesFromReference(ref, a) ==
  LET items == ResponseVariables(VariablesResponse(a, ref)) IN
    [i \in 1..Len(items) |-> VariableInfo(items[i])]

\* the requests made to fetch the children of the variable with reference ref
ChildrenQueries(session, ref, a) == <<VariablesRequest(session, ref)>>

ExpandedData(found, children) == [variable |-> found.variable, children |-> children]

\* (mutant: a name found nowhere is answered like a variable without children)
VariableNotFoundAsEmpty(variableName) ==
  SuccessResult(JSONStringify([variable |-> [name |-> variableName, value |-> "",
                                             isExpandable |-> FALSE],
                               children |-> <<>>]))

VariableNotFound(variableName) ==
  ErrorResult("Variable '" \o variableName \o "' not found in current scope")

\* invoke, from its start to the point where the children are to be fetched
\* (pc "expanding") or to its return
ExpandVariableInvoked(variableName, active) ==
  /\ inspectCall.pc = "idle"
  /\ active # NoSession => backend[active.id] = "live"
  /\ LET input == [variableName |-> variableName]
         debugContext == GetDebugContext(adapter)
     IN
       IF active = NoSession
       THEN /\ inspectCall' = [pc |-> "done", input |-> input, session |-> active,
                               result |-> ErrorResult("No active debug session found")]
            /\ UNCHANGED requests
       ELSE IF debugContext = Null
       THEN /\ inspectCall' =
                 [pc |-> "done", input |-> input, session |-> active,
                  result |-> ErrorResult("Unable to get debug context (threads, frames, or scopes)")]
            /\ requests' = requests \o DebugContextRequests(active)
       ELSE LET search == FindVariableInScopes(active, debugContext.scopes, variableName, adapter)
                original == GetOriginalVariable(active, debugContext.scopes, variableName, adapter)
            IN
              IF search.found = Null
              THEN /\ inspectCall' =
                        [pc |-> "done", input |-> input, session |-> active,
                         result |-> VariableNotFound(variableName)]
                   /\ requests' = requests \o DebugContextRequests(active) \o search.requests
              ELSE IF ~search.found.variable.isExpandable
              THEN /\ inspectCall' =
                        [pc |-> "done", input |-> input, session |-> active,
                         found |-> search.found,
                         result |-> SuccessResult(JSONStringify(ExpandedData(search.found, <<>>)))]
                   /\ requests' = requests \o DebugContextRequests(active) \o search.requests
              ELSE IF original.variable # Null /\ original.variable.variablesReference > 0
              THEN /\ inspectCall' =
                        [pc |-> "expanding", input |-> input, session |-> active,
                         found |-> search.found, original |-> original.variable]
                   /\ requests' = requests \o DebugContextRequests(active)
                                    \o search.requests \o original.requests
              ELSE /\ inspectCall' =
                        [pc |-> "done", input |-> input, session |-> active,
                         found |-> search.found,
                         result |-> SuccessResult(JSONStringify(ExpandedData(search.found, <<>>)))]
                   /\ requests' = requests \o DebugContextRequests(active)
                                    \o search.requests \o original.requests
  /\ UNCHANGED <<sessionVars, waitVars, callVars, adapter, breakpoints>>

\* the children are fetched and the tool returns
ExpandVariableReturns ==
  /\ inspectCall.pc = "expanding"
  /\ LET ref == inspectCall.original.variablesReference
         children == GetVariablesFromReference(ref, adapter)
     IN /\ requests' = requests \o ChildrenQueries(inspectCall.session, ref, adapter)
        /\ inspectCall' =
             [inspectCall EXCEPT !.pc = "done"] @@
             [result |-> SuccessResult(JSONStringify(ExpandedData(inspectCall.found, children)))]
  /\ UNCHANGED <<sessionVars, waitVars, callVars, adapter, breakpoints>>

InitExpand ==
  /\ activeSessions = <<SessionOf("s3"), SessionOf("s1")>>
  /\ backend = [id \in SessionIds |-> IF id = "s2" THEN "idle" ELSE "live"]
  /\ InitWaits
  /\ startCall = [pc |-> "idle", wait |-> 0, session |-> ""]
  /\ resumeCall = [pc |-> "idle"]
  /\ probe = NoProbe
  /\ tracker = NoTracker
  /\ stopCall = NoCall
  /\ adapter \in ExpandAdapters
  /\ requests = <<>>
  /\ inspectCall = NoCall
  /\ breakpoints = ExistingBreakpoints

NextExpand ==
  \/ \E variableName \in VariableNames, active \in {NoSession, SessionOf("s1"), SessionOf("s3")} :
       ExpandVariableInvoked(variableName, active)
  \/ ExpandVariableReturns

SpecExpand == InitExpand /\ [][NextExpand]_vars

-----------------------------------------------------------------------------
(* EvaluateExpressionTool *)

EvaluateInputs ==
  { [expression |-> "alpha"],
    [expression |-> "alpha", sessionId |-> ""],
    [expression |-> "alpha", sessionId |-> "s1"],
    [expression |-> "alpha", sessionId |-> "nope"] }

\* the adapter's answer to 'evaluate', or the request failing
EvaluateResponses ==
  { [result |-> "1", type |-> "int", variablesReference |-> 0],
    Throws("Unable to evaluate") }

TextPartResult(text) == [parts |-> <<[value |-> text]>>]

NoEvaluateSession ==
  TextPartResult("Error: No active debug session found to evaluate expression.")

\* (mutant: an id that matches no registered session is an error)
EvaluateSessionStrict(input, sessions, active) ==
  IF Truthy(input, "sessionId")
  THEN FindSessionById(input.sessionId, sessions)
  ELSE IF active # NoSession THEN active
  ELSE IF Len(sessions) > 0 THEN sessions[1]
  ELSE NoSession

\* `session = activeSessions.find(...)` under `if (sessionId)`, then
\* `session = vscode.debug.activeDebugSession || activeSessions[0]`
EvaluateSession(input, sessions, active) ==
  LET found == IF Truthy(input, "sessionId")
               THEN FindSessionById(input.sessionId, sessions) ELSE NoSession
  IN IF found # NoSession THEN found
     ELSE IF active # NoSession THEN active
     ELSE IF Len(sessions) > 0 THEN sessions[1]
     ELSE NoSession

EvaluateRequest(session, expression, debugContext) ==
  [session |-> session.id, command |-> "evaluate",
   args |-> IF debugContext # Null
            THEN [expression |-> expression, context |-> "watch",
                  frameId |-> debugContext.frame.id]
            ELSE [expression |-> expression, context |-> "watch"]]

\* EvaluateExpressionTool.invoke, from the call to its return
EvaluateExpressionInvoked(input, active, response) ==
  /\ inspectCall.pc = "idle"
  /\ LET session == EvaluateSession(input, activeSessions, active) IN
       IF session = NoSession
       THEN /\ inspectCall' = [pc |-> "evaluated", input |-> input, active |-> active,
                               session |-> session, response |-> response,
                               ret |-> NoEvaluateSession]
            /\ requests' = requests
       ELSE LET debugContext == GetDebugContext(adapter) IN
            /\ requests' = requests \o DebugContextRequests(session)
                              \o <<EvaluateRequest(session, input.expression, debugContext)>>
            /\ inspectCall' =
                 [pc |-> "evaluated", input |-> input, active |-> active,
                  session |-> session, response |-> response,
                  ret |-> IF "throws" \in DOMAIN response
                          THEN TextPartResult("Error evaluating expression '"
                                              \o input.expression \o "': "
                                              \o response.throws)
                          ELSE TextPartResult(
                                 JSONStringify([expression |-> input.expression,
                                                result |-> response.result,
                                                type |-> response.type,
                                                variablesReference |->
                                                  response.variablesReference]))]
  /\ UNCHANGED <<sessionVars, waitVars, callVars, adapter, breakpoints>>

InitEvaluate ==
  /\ activeSessions \in Registries
  /\ backend = [id \in SessionIds |-> "live"]
  /\ InitWaits
  /\ startCall = [pc |-> "idle", wait |-> 0, session |-> ""]
  /\ resumeCall = [pc |-> "idle"]
  /\ probe = NoProbe
  /\ tracker = NoTracker
  /\ stopCall = NoCall
  /\ adapter \in {DefaultAdapter, AdapterWith(Throws("Unable to retrieve scopes"),
                                              JsUndefined, JsUndefined)}
  /\ requests = <<>>
  /\ inspectCall = NoCall
  /\ breakpoints = ExistingBreakpoints

NextEvaluate ==
  \E input \in EvaluateInputs, active \in SessionPool \cup {NoSession},
     response \in EvaluateResponses :
    EvaluateExpressionInvoked(input, active, response)

SpecEvaluate == InitEvaluate /\ [][NextEvaluate]_vars

-----
(* Properties of the coordinator *)

Settled(w) == promise[w] # Pending

OnBus(w) == Subscribed(stoppedListeners, w) \/ Subscribed(terminateListeners, w)

\* C1: every wait gets exactly one outcome (a stopped event, a termination or
\* the timeout); it is the first one offered to the wait, the call's result
\* is built from it, and once set neither the outcome nor the result changes
\* whatever events and timers follow.
C1_OneOutcome ==
  /\ [](\A w \in Waits :
          /\ promise[w] = firstOutcome[w]
          /\ promise[w].state \in {"pending", "fulfilled", "rejected"}
          /\ result[w] = IF Settled(w) THEN WaitResult(promise[w]) ELSE NoResult)
  /\ [][\A w \in Waits :
          /\ Settled(w) => promise'[w] = promise[w]
          /\ result[w] # NoResult => result'[w] = result[w]]_vars

\* a wait resolved by a stop whose timer expired later and whose session ended later
C1_Witness ==
  \E w \in Waits :
    /\ promise[w].state = "fulfilled"
    /\ promise[w].value.reason = "breakpoint"
    /\ IncludeTermination(waitParams[w])
    /\ w \notin timers
    /\ backend[promise[w].value.sessionId] = "ended"

\* C2: a resolved wait (by a stop, a termination or the timeout) has neither
\* its stopped-event subscription nor its termination subscription on the bus,
\* from the very step that resolved it.
C2_ResolvedWaitUnsubscribed ==
  \A w \in Waits : Settled(w) => ~OnBus(w)

\* a wait that had a termination subscription and was resolved by a stop
C2_Witness ==
  \E w \in Waits :
    /\ IncludeTermination(waitParams[w])
    /\ promise[w].state = "fulfilled"
    /\ promise[w].value.reason = "breakpoint"
    /\ w \in timers

\* C3: every wait terminates.  A pending wait always has its timer set; when
\* the timer expires first the call returns an error result reporting the
\* timeout (30000 ms by default), the wait is off the bus for good, and every
\* armed wait eventually returns.
C3_EveryWaitTerminates ==
  /\ [](\A w \in Waits :
          /\ ~Settled(w) => w \in timers
          /\ promise[w].state = "rejected" =>
               /\ result[w] =
                    [content |-> <<[type |-> "text",
                                    text |-> "Error waiting for breakpoint: Timed out waiting for breakpoint or termination ("
                                             \o ToString(IF "timeout" \in DOMAIN waitParams[w]
                                                         THEN waitParams[w].timeout ELSE 30000)
                                             \o "ms)."]>>,
                     isError |-> TRUE]
               /\ ~OnBus(w)
               /\ w \notin timers)
  /\ \A w \in 1..MaxWaits :
       (w \in Waits) ~> (w \in Waits /\ result[w] # NoResult)

\* a wait with the default timeout that timed out
C3_Witness ==
  \E w \in Waits :
    /\ "timeout" \notin DOMAIN waitParams[w]
    /\ promise[w].state = "rejected"
    /\ result[w].isError

C5_ArmedBeforeContinue ==
  "request" \in DOMAIN resumeCall =>
    /\ resumeCall.request.command = "continue"
    /\ resumeCall.request.args = [threadId |-> 0]
    /\ resumeCall.wait \in Waits
    /\ waitParams[resumeCall.wait] =
         [sessionId |-> resumeCall.params.sessionId, includeTermination |-> TRUE]
    /\ ~Settled(resumeCall.wait) =>
         /\ Subscribed(stoppedListeners, resumeCall.wait)
         /\ Subscribed(terminateListeners, resumeCall.wait)
         /\ resumeCall.wait \in timers
    /\ backend[resumeCall.request.session] = "live" =>
         \/ Subscribed(stoppedListeners, resumeCall.wait)
         \/ Settled(resumeCall.wait)

\* the resumed session stopped before the 'continue' request was answered and
\* the armed wait caught that stop
C5_Witness ==
  /\ resumeCall.pc = "continuing"
  /\ resumeCall.wait \in Waits
  /\ promise[resumeCall.wait].state = "fulfilled"
  /\ promise[resumeCall.wait].value.reason = "breakpoint"
  /\ promise[resumeCall.wait].value.sessionId = resumeCall.request.session

\* C6: a fired StoppedEvent resolves a pending wait iff the wait's target
\* session was found and the event's sessionId equals the target's id, or the
\* names are equal, or one name is a prefix of the other; otherwise the wait
\* stays pending with its subscriptions.  With "Run test.ps1" registered, a wait
\* by that name resolves on a stop of "Run test.ps1 2".
C6_StoppedMatchRule ==
  /\ [][\A id \in SessionIds, body \in StoppedBodies, cs \in CallStackOutcomes :
          (body.reason \in ValidReasons /\ OnDidSendMessage(id, body, cs)) =>
            LET event == StoppedEvent(SessionOf(id), body, cs) IN
            \A w \in Waits :
              ~Settled(w) =>
                LET target == ResolveTarget(waitParams[w], activeSessions)
                    matches ==
                      /\ target # NoSession
                      /\ \/ event.sessionId = target.id
                         \/ event.sessionName = target.name
                         \/ StartsWith(event.sessionName, target.name)
                         \/ StartsWith(target.name, event.sessionName)
                IN IF matches
                   THEN promise'[w] = Fulfilled(event)
                   ELSE /\ promise'[w] = Pending
                        /\ Subscribed(stoppedListeners', w)
                        /\ Subscribed(terminateListeners', w)
                             <=> Subscribed(terminateListeners, w)]_vars
  /\ [][\A body \in StoppedBodies, cs \in CallStackOutcomes :
          (body.reason \in ValidReasons /\ OnDidSendMessage("s2", body, cs)) =>
            \A w \in Waits :
              (/\ ~Settled(w)
               /\ waitParams[w] = [sessionName |-> "Run test.ps1"]
               /\ IsRegistered("s1")) =>
                /\ promise'[w].state = "fulfilled"
                /\ promise'[w].value.sessionName = "Run test.ps1 2"]_vars

\* the parent is registered, the renamed child never was, and the wait by the
\* parent's name was resolved by the child's stop
C6_Witness ==
  \E w \in Waits :
    /\ waitParams[w] = [sessionName |-> "Run test.ps1"]
    /\ promise[w].state = "fulfilled"
    /\ promise[w].value.reason = "breakpoint"
    /\ promise[w].value.sessionName = "Run test.ps1 2"
    /\ IsRegistered("s1")
    /\ backend["s2"] = "live" /\ ~IsRegistered("s2")

\* C7 (as claimed): a fired TerminatedEvent resolves a pending wait iff
\* includeTermination is set and the event's session matches the wait's
\* resolved target by the rule used for stopped events.
C7_TerminationSameRule ==
  [][\A id \in SessionIds :
       OnDidTerminateDebugSession(id) =>
         LET endEvent == TerminatedEvent(SessionOf(id)) IN
         \A w \in Waits :
           ~Settled(w) =>
             (promise'[w] # Pending <=>
                /\ IncludeTermination(waitParams[w])
                /\ EventMatchesTarget(endEvent,
                                      ResolveTarget(waitParams[w], activeSessions)))]_vars

\* C7 (amended): a fired TerminatedEvent resolves a pending wait exactly when
\* includeTermination is set and the event matches the wait's selector as
\* given, with no target lookup: the event's sessionId equals the given id; or,
\* no id given, the event's sessionName equals the given name or starts with
\* it; or neither was given.  With includeTermination false no termination
\* event resolves the wait.
C7_TerminationBySelector ==
  [][\A id \in SessionIds :
       OnDidTerminateDebugSession(id) =>
         \A w \in Waits :
           ~Settled(w) =>
             LET p == waitParams[w]
                 hasId == "sessionId" \in DOMAIN p /\ p.sessionId # ""
                 hasName == "sessionName" \in DOMAIN p /\ p.sessionName # ""
                 enabled == "includeTermination" \in DOMAIN p => p.includeTermination
                 matches ==
                   IF hasId THEN id = p.sessionId
                   ELSE IF hasName
                   THEN \/ SessionOf(id).name = p.sessionName
                        \/ StartsWith(SessionOf(id).name, p.sessionName)
                   ELSE TRUE
             IN /\ promise'[w] # Pending <=> (enabled /\ matches)
                /\ ~enabled => /\ promise'[w] = Pending
                               /\ ~Subscribed(terminateListeners, w)]_vars

\* a wait by the parent's name resolved by the termination of the renamed
\* child, and a wait without includeTermination that outlived its session
C7_Witness ==
  /\ \E w \in Waits :
       /\ waitParams[w] = [sessionName |-> "Run test.ps1"]
       /\ promise[w].state = "fulfilled"
       /\ promise[w].value.reason = "terminated"
       /\ promise[w].value.sessionName = "Run test.ps1 2"
  /\ \E w \in Waits :
       /\ ~IncludeTermination(waitParams[w])
       /\ ~Settled(w)
       /\ backend["s2"] = "ended"

\* C8 (as claimed): by name the target is found by three strategies tried in
\* order: exact equality, the given name a prefix of a registered name, a
\* registered name a prefix of the given name.
C8_ThreeStrategyLookup ==
  probe.applied =>
    probe.target = ResolveTargetThreeStrategies(waitParams[1], activeSessions)

\* C8 (amended): the target is the first session in registration order that
\* qualifies, none if no session does.  With an id given, a session qualifies
\* when its id or its configuration.sessionId equals it; else with a name
\* given, when its name equals the name or starts with it (a single pass, so
\* an earlier prefix match beats a later exact one, and a registered name that
\* is only a prefix of the given name never qualifies); else every session
\* qualifies, which selects the first registered one.
C8_TargetSelection ==
  probe.applied =>
    LET p == waitParams[1]
        hasId == "sessionId" \in DOMAIN p /\ p.sessionId # ""
        hasName == "sessionName" \in DOMAIN p /\ p.sessionName # ""
        qualifies(s) ==
          IF hasId
          THEN \/ s.id = p.sessionId
               \/ /\ "sessionId" \in DOMAIN s.configuration
                  /\ s.configuration.sessionId = p.sessionId
          ELSE IF hasName
          THEN s.name = p.sessionName \/ StartsWith(s.name, p.sessionName)
          ELSE TRUE
        candidates == { i \in DOMAIN activeSessions : qualifies(activeSessions[i]) }
    IN IF candidates = {}
       THEN probe.target = NoSession
       ELSE \E i \in candidates :
              /\ probe.target = activeSessions[i]
              /\ \A j \in candidates : i <= j

\* the renamed child registered before its parent is the target of a lookup by
\* the parent's name
C8_Witness ==
  /\ probe.applied
  /\ waitParams[1] = [sessionName |-> "Run test.ps1"]
  /\ Len(activeSessions) >= 2
  /\ activeSessions[1].id = "s2"
  /\ activeSessions[2].id = "s1"
  /\ probe.target = SessionOf("s2")

\* C9: a wait resolved by a termination returns a non-error result carrying
\* the ended session's id and name, threadId 0, reason 'terminated' and
\* nothing else (no frameId).
C9_TerminatedResult ==
  [][\A id \in SessionIds :
       OnDidTerminateDebugSession(id) =>
         \A w \in Waits :
           (~Settled(w) /\ promise'[w] # Pending) =>
             result'[w] =
               [content |-> <<[type |-> "text",
                               text |-> [json |-> [sessionId |-> id,
                                                   sessionName |-> SessionOf(id).name,
                                                   threadId |-> 0,
                                                   reason |-> "terminated"]]]>>,
                isError |-> FALSE]]_vars

\* a call that returned a termination
C9_Witness ==
  \E w \in Waits :
    /\ result[w] # NoResult
    /\ ~result[w].isError
    /\ JSONParse(result[w].content[1].text).reason = "terminated"

\* C10: waits outstanding together are independent: a subscription leaves the
\* bus only in the step that resolves its own wait, a timeout touches no other
\* wait, one fired StoppedEvent resolves every pending wait it matches, and
\* each wait ends with the first outcome offered to it.
C10_IndependentWaits ==
  /\ [][\A w \in Waits :
          /\ (Subscribed(stoppedListeners, w) /\ ~Subscribed(stoppedListeners', w))
               => (~Settled(w) /\ promise'[w] # Pending)
          /\ (Subscribed(terminateListeners, w) /\ ~Subscribed(terminateListeners', w))
               => (~Settled(w) /\ promise'[w] # Pending)]_vars
  /\ [][\A w \in Waits :
          TimerFires(w) =>
            \A v \in Waits \ {w} :
              /\ promise'[v] = promise[v]
              /\ Subscribed(stoppedListeners', v) <=> Subscribed(stoppedListeners, v)
              /\ Subscribed(terminateListeners', v) <=> Subscribed(terminateListeners, v)]_vars
  /\ [][\A id \in SessionIds, body \in StoppedBodies, cs \in CallStackOutcomes :
          (body.reason \in ValidReasons /\ OnDidSendMessage(id, body, cs)) =>
            LET event == StoppedEvent(SessionOf(id), body, cs) IN
            \A w \in Waits :
              (/\ ~Settled(w)
               /\ EventMatchesTarget(event, ResolveTarget(waitParams[w], activeSessions)))
                => promise'[w] = Fulfilled(event)]_vars
  /\ [](\A w \in Waits : firstOutcome[w] # Pending => promise[w] = firstOutcome[w])

\* two waits resolved by the same stop while a third outcome (a timeout) hit
\* neither: both timers are still set
C10_Witness ==
  \E v, w \in Waits :
    /\ v < w
    /\ promise[v].state = "fulfilled"
    /\ promise[v].value.reason = "breakpoint"
    /\ promise[w] = promise[v]
    /\ waitParams[v] # waitParams[w]

-----------------------------------------------------------------------------
(* Properties of getStackFrameVariables *)

\* the call returns in this step
Returns == inspectCall.pc # "done" /\ inspectCall'.pc = "done"

\* the filter in effect in the run that returns: the caller's, or none in the retry
FilterInEffect ==
  IF inspectCall.pc = "idle" /\ "filter" \in DOMAIN inspectCall'.params
  THEN inspectCall'.params.filter ELSE ""

\* the adapter answered 'scopes' with a list
ScopesListed ==
  /\ "throws" \notin DOMAIN adapter.scopes
  /\ adapter.scopes.type = "object"
  /\ "scopes" \in DOMAIN adapter.scopes
  /\ adapter.scopes.scopes.type = "array"

\* the 'variables' query of this reference threw or brought no variables list
QueryFailed(ref) ==
  LET response == adapter.variables[ref] IN
    \/ "throws" \in DOMAIN response
    \/ response.type = "undefined"
    \/ "variables" \notin DOMAIN response
    \/ response.variables.type # "array"

\* C11: when one scope's variables query fails (the request throws, or the
\* response has no variables list) the assembly still succeeds: the result
\* has isError false and one entry per scope in order; the failed scope's
\* entry has no variables and an error string; a scope whose query succeeded
\* has, with no filter in effect, exactly the backend's variables and no error.
C11_ScopeFailureIsPartial ==
  [][(Returns /\ IsRegistered(inspectCall'.params.sessionId) /\ ScopesListed) =>
       LET scopes == adapter.scopes.scopes.items
           res == inspectCall'.result
       IN /\ ~res.isError
          /\ res.content[1].type = "json"
          /\ Len(res.content[1].json.variablesByScope) = Len(scopes)
          /\ \A i \in 1..Len(scopes) :
               LET entry == res.content[1].json.variablesByScope[i]
                   ref == scopes[i].variablesReference
               IN /\ entry.scopeName = scopes[i].name
                  /\ (ref # 0 /\ QueryFailed(ref)) =>
                       /\ entry.variables = <<>>
                       /\ "error" \in DOMAIN entry
                       /\ Len(entry.error) > 0
                  /\ (ref # 0 /\ ~QueryFailed(ref) /\ FilterInEffect = "") =>
                       /\ entry.variables = adapter.variables[ref].variables.items
                       /\ "error" \notin DOMAIN entry]_vars

\* a returned snapshot in which one scope failed and another brought variables
C11_Witness ==
  /\ inspectCall.pc = "done"
  /\ ~inspectCall.result.isError
  /\ \E i, j \in 1..Len(inspectCall.result.content[1].json.variablesByScope) :
       LET byScope == inspectCall.result.content[1].json.variablesByScope IN
         /\ "error" \in DOMAIN byScope[i]
         /\ byScope[i].variables = <<>>
         /\ "error" \notin DOMAIN byScope[j]
         /\ Len(byScope[j].variables) = 2

\* the names of a variable list that contain one of the given lower-case
\* fragments, whatever the case of the name
NamesContaining(items, fragments) ==
  SelectSeq(items, LAMBDA v : \E f \in fragments : Includes(ToLowerCase(v.name), f))

\* what the filters of the checked calls select from a variable list
Selected(items, filter) ==
  CASE filter = "a" -> NamesContaining(items, {"a"})
    [] filter = "ALPHA" -> NamesContaining(items, {"alpha"})
    [] filter = "^al" -> NamesContaining(items, {"alpha"})
    [] filter = "gam" -> NamesContaining(items, {"gam"})
    [] filter = "node|beta" -> NamesContaining(items, {"node", "beta"})
    [] OTHER -> <<>>

\* C12 (as claimed): with a filter and no retry taken, every scope whose query
\* succeeded returns exactly the backend's variables whose name matches the
\* filter, case-insensitively, in order; a scope without a match is present
\* with zero variables and no error.
C12_FilterPerScope ==
  [][(/\ Returns /\ inspectCall.pc = "idle" /\ FilterInEffect # ""
      /\ IsRegistered(inspectCall'.params.sessionId) /\ ScopesListed) =>
       LET scopes == adapter.scopes.scopes.items
           byScope == inspectCall'.result.content[1].json.variablesByScope
       IN \A i \in 1..Len(scopes) :
            (scopes[i].variablesReference # 0 /\ ~QueryFailed(scopes[i].variablesReference)) =>
              /\ byScope[i].scopeName = scopes[i].name
              /\ byScope[i].variables =
                   Selected(adapter.variables[scopes[i].variablesReference].variables.items,
                            FilterInEffect)
              /\ "error" \notin DOMAIN byScope[i]]_vars

\* C12 (amended): the same for a filter that is a valid regular expression;
\* a filter that is not one leaves every queried scope with zero variables
\* and an error string, the result still being a non-error snapshot.
C12_ValidFilterPerScope ==
  [][(/\ Returns /\ inspectCall.pc = "idle" /\ FilterInEffect # ""
      /\ IsRegistered(inspectCall'.params.sessionId) /\ ScopesListed) =>
       LET scopes == adapter.scopes.scopes.items
           res == inspectCall'.result
           byScope == res.content[1].json.variablesByScope
       IN /\ ~res.isError
          /\ res.content[1].json.filter = FilterInEffect
          /\ \A i \in 1..Len(scopes) :
               (scopes[i].variablesReference # 0 /\ ~QueryFailed(scopes[i].variablesReference)) =>
                 /\ byScope[i].scopeName = scopes[i].name
                 /\ IF FilterInEffect = "("
                    THEN /\ byScope[i].variables = <<>>
                         /\ "error" \in DOMAIN byScope[i]
                    ELSE /\ byScope[i].variables =
                              Selected(adapter.variables[scopes[i].variablesReference].variables.items,
                                       FilterInEffect)
                         /\ "error" \notin DOMAIN byScope[i]]_vars

\* filter "ALPHA": the Local scope keeps alpha, the Global scope keeps ALPHA2
C12_Witness ==
  /\ inspectCall.pc = "done"
  /\ "first" \notin DOMAIN inspectCall
  /\ "filter" \in DOMAIN inspectCall.params
  /\ inspectCall.params.filter = "ALPHA"
  /\ ~inspectCall.result.isError
  /\ LET byScope == inspectCall.result.content[1].json.variablesByScope IN
       /\ Len(byScope) = 2
       /\ \A i \in 1..2 : "error" \notin DOMAIN byScope[i]
       /\ byScope[1].variables = <<Variable("alpha", "1", 0)>>
       /\ byScope[2].variables = <<Variable("ALPHA2", "4", 0)>>

\* the same call with neither filter nor retryIfEmpty
Unfiltered(p) == [sessionId |-> p.sessionId, frameId |-> p.frameId, threadId |-> p.threadId]

\* the total number of variables of a non-error result
VariableCount(res) == TotalVars(res.content[1].json.variablesByScope)

\* C13: a call with a filter and retryIfEmpty = true retries exactly when its
\* filtered assembly has zero variables in all scopes together, and what it
\* then returns equals what the call without a filter returns for the same
\* session, frame, thread and adapter answers.
C13_RetryEqualsUnfiltered ==
  [][/\ (inspectCall.pc = "idle" /\ inspectCall'.pc # "idle") =>
          (inspectCall'.pc = "retrying" <=>
             /\ "filter" \in DOMAIN inspectCall'.params
             /\ inspectCall'.params.filter # ""
             /\ "retryIfEmpty" \in DOMAIN inspectCall'.params
             /\ inspectCall'.params.retryIfEmpty
             /\ IsRegistered(inspectCall'.params.sessionId)
             /\ ScopesListed
             /\ VariableCount(Attempt(inspectCall'.params, activeSessions, adapter).result) = 0)
     /\ (inspectCall.pc = "retrying" /\ inspectCall'.pc # "retrying") =>
          /\ inspectCall'.pc = "done"
          /\ inspectCall'.result =
               GetStackFrameVariables(Unfiltered(inspectCall.params), activeSessions, adapter)
          /\ inspectCall'.result.isError \/ inspectCall'.result.content[1].json.filter = Undefined]_vars

\* filter "delta" matched nothing, the retry brought the five variables of the
\* two scopes
C13_Witness ==
  /\ inspectCall.pc = "done"
  /\ "first" \in DOMAIN inspectCall
  /\ inspectCall.params.filter = "delta"
  /\ VariableCount(inspectCall.first) = 0
  /\ ~inspectCall.result.isError
  /\ VariableCount(inspectCall.result) = 5

\* C14: for the same session, frame, thread and adapter answers the call
\* without a filter returns at least as many variables in total as the call
\* with any filter, with or without retryIfEmpty.
C14_UnfilteredCountIsLargest ==
  (/\ inspectCall.pc = "done"
   /\ ~inspectCall.result.isError
   /\ ~GetStackFrameVariables(Unfiltered(inspectCall.params), activeSessions, adapter).isError) =>
     VariableCount(GetStackFrameVariables(Unfiltered(inspectCall.params), activeSessions, adapter))
       >= VariableCount(inspectCall.result)

\* filter "a" kept four of the five variables
C14_Witness ==
  /\ inspectCall.pc = "done"
  /\ "filter" \in DOMAIN inspectCall.params
  /\ inspectCall.params.filter = "a"
  /\ ~inspectCall.result.isError
  /\ VariableCount(inspectCall.result) = 4
  /\ IsRegistered("s1")
  /\ VariableCount(GetStackFrameVariables(Unfiltered(inspectCall.params), activeSessions, adapter)) = 5

\* C15: a call whose sessionId equals no registered session's id returns an
\* error result naming that id and sends no request.
C15_UnknownSessionIsError ==
  [][(/\ inspectCall.pc = "idle" /\ inspectCall'.pc # "idle"
      /\ \A i \in 1..Len(activeSessions) : activeSessions[i].id # inspectCall'.params.sessionId) =>
       /\ inspectCall'.pc = "done"
       /\ inspectCall'.result =
            [content |-> <<[type |-> "text",
                            text |-> "No debug session found with ID '"
                                     \o inspectCall'.params.sessionId \o "'."]>>,
             isError |-> TRUE]
       /\ requests' = requests]_vars

\* sessions are registered, the id is none of theirs, nothing was sent
C15_Witness ==
  /\ inspectCall.pc = "done"
  /\ inspectCall.params.sessionId = "nope"
  /\ Len(activeSessions) = 2
  /\ inspectCall.result.isError
  /\ requests = <<>>

\* C16: when the scopes response is missing, has no scopes field or its scopes
\* field is not a list, the call fails as a whole: an error result whose
\* message names the session's adapter type, the scopes request being the only
\* request sent; a non-error result is only returned for a listed scopes
\* response.
C16_InvalidScopesFailWhole ==
  /\ [][(/\ Returns
         /\ IsRegistered(inspectCall'.params.sessionId)
         /\ "throws" \notin DOMAIN adapter.scopes
         /\ \/ adapter.scopes.type = "undefined"
            \/ "scopes" \notin DOMAIN adapter.scopes
            \/ adapter.scopes.scopes.type # "array") =>
          /\ inspectCall'.result.isError
          /\ inspectCall'.result.content[1].type = "text"
          /\ Includes(inspectCall'.result.content[1].text,
                      SessionOf(inspectCall'.params.sessionId).configuration.type)
          /\ requests' = requests \o
               <<[session |-> inspectCall'.params.sessionId, command |-> "scopes",
                  args |-> [frameId |-> inspectCall'.params.frameId]]>>]_vars
  /\ [](~ScopesListed =>
          /\ \A i \in 1..Len(requests) : requests[i].command # "variables"
          /\ inspectCall.pc = "done" => inspectCall.result.isError)

\* the scopes field was not a list: an error naming the PowerShell adapter
C16_Witness ==
  /\ inspectCall.pc = "done"
  /\ adapter.scopes = [type |-> "object", scopes |-> JsString("none")]
  /\ inspectCall.result.isError
  /\ Includes(inspectCall.result.content[1].text, "PowerShell")
  /\ Len(requests) = 1

-----------------------------------------------------------------------------
(* Properties of resumeDebugSession *)

\* the step in which the awaited wait's result is turned into the reply
ResumeReplies == resumeCall.pc = "awaiting" /\ resumeCall'.pc = "done"

\* C17: with waitForStop = true the reply follows the outcome of the armed
\* wait. Stopped: a non-error reply built by resolveBreakpointInfo, whose
\* first text names the stop and whose second carries the event with the
\* call stack and the variables (or the warning of its catch branch).
\* Terminated: a non-error reply saying that the session terminated before
\* hitting another breakpoint, carrying the termination info, and no request
\* is sent. Timed out: the wait's own error result, and no request is sent.
C17_ReplyFollowsOutcome ==
  [][ResumeReplies =>
       LET stopResult == result[resumeCall.wait]
           ret == resumeCall'.ret
           name == resumeCall.session.name
       IN /\ WaitForStop(resumeCall.params)
          /\ stopResult # NoResult
          /\ IF stopResult.isError
             THEN /\ promise[resumeCall.wait].state = "rejected"
                  /\ ret = stopResult
                  /\ ret.isError
                  /\ requests' = requests
             ELSE LET info == promise[resumeCall.wait].value IN
               IF info.reason = "terminated"
               THEN /\ ~ret.isError
                    /\ ret.content[1].text = "Debug session '" \o name
                         \o "' terminated before hitting another breakpoint."
                    /\ ret.content[2].text.json = info
                    /\ requests' = requests
               ELSE /\ info.reason \in ValidReasons
                    /\ ~ret.isError
                    /\ Len(ret.content) = 2
                    /\ StartsWith(ret.content[1].text,
                                  "Debug session " \o info.sessionName \o " stopped")
                    /\ \/ ret.content[1].text =
                            "Debug session " \o info.sessionName \o " stopped successfully."
                       \/ LET debugInfo == ret.content[2].text.json IN
                            /\ debugInfo.breakpoint.sessionId = info.sessionId
                            /\ debugInfo.breakpoint.reason = info.reason
                            /\ DOMAIN debugInfo =
                                 {"breakpoint", "callStack", "variables", "variablesError"}
                            /\ debugInfo.variables # Null =>
                                 /\ debugInfo.variables.sessionId = info.sessionId
                                 /\ debugInfo.variables.frameId = info.frameId]_vars

\* a resume that waited has replied to a stop with the call stack and the
\* variables of the stopped frame
C17_Witness ==
  /\ resumeCall.pc = "done"
  /\ WaitForStop(resumeCall.params)
  /\ resumeCall.wait \in Waits
  /\ promise[resumeCall.wait].state = "fulfilled"
  /\ promise[resumeCall.wait].value.reason = "breakpoint"
  /\ ~resumeCall.ret.isError
  /\ Len(resumeCall.ret.content) = 2
  /\ StartsWith(resumeCall.ret.content[1].text, "Debug session Run test.ps1 stopped at")
  /\ resumeCall.ret.content[2].text.json.variables # Null
  /\ resumeCall.ret.content[2].text.json.callStack # Null

\* the step in which the 'continue' request is answered
ContinueAnswered == resumeCall.pc = "continuing" /\ resumeCall'.pc # "continuing"

\* C18: with waitForStop false or omitted the call returns the non-error
\* 'Resumed debug session' reply in the very step in which 'continue' is
\* acknowledged, whatever the state of the wait it armed: it never passes
\* through the awaiting state, and the reply step touches neither the wait
\* nor the request log.
C18_ReturnsOnAcknowledgement ==
  [][(ContinueAnswered /\ ~WaitForStop(resumeCall.params) /\ resumeCall'.acknowledged) =>
       /\ resumeCall'.pc = "done"
       /\ resumeCall'.ret =
            [content |-> <<[type |-> "text",
                            text |-> "Resumed debug session '" \o resumeCall.session.name
                                     \o "'."]>>,
             isError |-> FALSE]
       /\ UNCHANGED <<waitVars, requests, breakpoints>>]_vars

\* the call has returned 'Resumed' while the wait it armed is still pending
\* and its deadline has not passed
C18_Witness ==
  /\ resumeCall.pc = "done"
  /\ ~WaitForStop(resumeCall.params)
  /\ "acknowledged" \in DOMAIN resumeCall /\ resumeCall.acknowledged
  /\ ~resumeCall.ret.isError
  /\ resumeCall.wait \in Waits
  /\ promise[resumeCall.wait] = Pending
  /\ resumeCall.wait \in timers
  /\ Subscribed(stoppedListeners, resumeCall.wait)

\* the step in which resumeDebugSession is called
ResumeIsCalled == resumeCall.pc = "idle" /\ resumeCall'.pc # "idle"

\* no registered session has the id or a name containing it
MatchesNoSession(sessionId) ==
  \A i \in 1..Len(activeSessions) :
    /\ activeSessions[i].id # sessionId
    /\ ~Includes(activeSessions[i].name, sessionId)

\* C19: called with a sessionId that is no registered session's id and is
\* contained in no registered session's name, resumeDebugSession returns the
\* error result "No debug session found with ID '<id>'." at once: no request
\* is sent, the breakpoints stay as they were whatever breakpointConfig
\* says, no wait is armed, and the tool hands the message on as one text
\* part.
C19_UnknownSessionIsError ==
  [][(ResumeIsCalled /\ MatchesNoSession(resumeCall'.params.sessionId)) =>
       /\ resumeCall'.pc = "done"
       /\ resumeCall'.ret.isError
       /\ resumeCall'.ret.content =
            <<[type |-> "text",
               text |-> "No debug session found with ID '"
                        \o resumeCall'.params.sessionId \o "'."]>>
       /\ resumeCall'.toolResult =
            [parts |-> <<[value |-> "No debug session found with ID '"
                                    \o resumeCall'.params.sessionId \o "'."]>>]
       /\ "request" \notin DOMAIN resumeCall'
       /\ UNCHANGED <<waitVars, requests, breakpoints>>]_vars

\* a resume of an unknown session that asked for breakpoint changes has
\* returned the error while sessions are registered
C19_Witness ==
  /\ resumeCall.pc = "done"
  /\ resumeCall.params.sessionId = "nope"
  /\ "breakpointConfig" \in DOMAIN resumeCall.params
  /\ resumeCall.ret.isError
  /\ Includes(resumeCall.ret.content[1].text, "No debug session found")
  /\ Len(activeSessions) > 0
  /\ breakpoints = ExistingBreakpoints
  /\ requests = <<>>
  /\ waitParams = <<>>

-----------------------------------------------------------------------------
(* Properties of ExpandVariableTool *)

\* the tool has returned for a variable it found and that is expandable
ExpandedFound ==
  /\ inspectCall.pc = "done"
  /\ "found" \in DOMAIN inspectCall
  /\ inspectCall.found.variable.isExpandable

\* C20: when the tool has returned for a variable that was found and has a
\* non-zero variablesReference, the 'variables' request against that
\* reference was sent exactly once, as the last request of the call; the
\* children returned are the variables of its answer, in order; and no
\* request was sent against the reference of any of these children.
C20_OneChildrenQuery ==
  ExpandedFound =>
    /\ "original" \in DOMAIN inspectCall
    /\ LET ref == inspectCall.original.variablesReference
           answer == ResponseVariables(adapter.variables[ref])
           query == VariablesRequest(inspectCall.session, ref)
       IN /\ ref # 0
          /\ MatchName(inspectCall.original) = inspectCall.input.variableName
          /\ inspectCall.found.variable.name = inspectCall.original.name
          /\ Cardinality({i \in 1..Len(requests) : requests[i] = query}) = 1
          /\ requests[Len(requests)] = query
          /\ ~inspectCall.result.isError
          /\ JSONParse(inspectCall.result.text).variable = inspectCall.found.variable
          /\ JSONParse(inspectCall.result.text).children =
               [i \in 1..Len(answer) |->
                  [name |-> answer[i].name, value |-> answer[i].value,
                   isExpandable |-> answer[i].variablesReference # 0]]
          /\ \A i \in 1..Len(answer) :
               answer[i].variablesReference # 0 =>
                 \A j \in 1..Len(requests) :
                   requests[j] # VariablesRequest(inspectCall.session,
                                                  answer[i].variablesReference)

\* `node` (reference 7, children left and right, left expandable) has been
\* expanded: both children are returned and nothing was asked of reference 8
C20_Witness ==
  /\ ExpandedFound
  /\ inspectCall.input.variableName = "node"
  /\ inspectCall.original.variablesReference = 7
  /\ Len(JSONParse(inspectCall.result.text).children) = 2
  /\ JSONParse(inspectCall.result.text).children[1].name = "left"
  /\ JSONParse(inspectCall.result.text).children[1].isExpandable
  /\ JSONParse(inspectCall.result.text).children[2].name = "right"

\* the scopes the adapter shows for the paused frame
VisibleScopes ==
  IF GetDebugContext(adapter) = Null THEN <<>> ELSE adapter.scopes.scopes.items

\* the variables the adapter answers for the i-th visible scope
VisibleVariables(i) ==
  ResponseVariables(VariablesResponse(adapter, VisibleScopes[i].variablesReference))

\* the i-th visible scope holds a variable of that name
VisibleIn(i, variableName) ==
  \E k \in 1..Len(VisibleVariables(i)) : MatchName(VisibleVariables(i)[k]) = variableName

\* C21: once the tool has returned for an active session whose scopes could
\* be had, a name held by no visible scope gives the error result "Variable
\* '<name>' not found in current scope"; a name held by a scope whose first
\* match has variablesReference 0 gives a success result with that variable
\* and an empty children list, and the only 'variables' requests sent are
\* the scans of the scopes up to the one that holds it.
C21_NotFoundVersusNotExpandable ==
  (inspectCall.pc = "done" /\ "input" \in DOMAIN inspectCall
     /\ inspectCall.session # NoSession /\ GetDebugContext(adapter) # Null) =>
    LET variableName == inspectCall.input.variableName
        holders == {i \in 1..Len(VisibleScopes) : VisibleIn(i, variableName)}
    IN IF holders = {}
       THEN /\ inspectCall.result.isError
            /\ inspectCall.result.text =
                 "Variable '" \o variableName \o "' not found in current scope"
       ELSE LET first == CHOOSE i \in holders : \A j \in holders : i <= j
                variable == FindVariable(VisibleVariables(first), variableName)
            IN variable.variablesReference = 0 =>
                 /\ ~inspectCall.result.isError
                 /\ JSONParse(inspectCall.result.text).variable =
                      [name |-> variable.name, value |-> variable.value,
                       isExpandable |-> FALSE]
                 /\ JSONParse(inspectCall.result.text).children = <<>>
                 /\ Len(requests) = 2 + first
                 /\ \A i \in 1..first :
                      requests[2 + i] =
                        VariablesRequest(inspectCall.session,
                                         VisibleScopes[i].variablesReference)

\* `gamma`, held by the second scope only and not expandable, has been
\* returned with no children
C21_Witness ==
  /\ inspectCall.pc = "done"
  /\ "found" \in DOMAIN inspectCall
  /\ inspectCall.input.variableName = "gamma"
  /\ ~inspectCall.found.variable.isExpandable
  /\ ~inspectCall.result.isError
  /\ JSONParse(inspectCall.result.text).children = <<>>
  /\ Len(requests) >= 4

-----------------------------------------------------------------------------
(* Properties of startDebuggingAndWaitForStop *)

\* the step in which the awaited wait's result is turned into the reply
StartReplies == startCall.pc = "awaiting" /\ startCall'.pc = "done"

\* C22: the wait of a start carries timeout_seconds (60 when not given) in
\* milliseconds, and when that wait has timed out the reply of start is the
\* wait's error result: isError true, the text saying that the wait timed
\* out after that many milliseconds, and the reply step sends no request.
C22_TimeoutIsErrorWithoutQueries ==
  [][(StartReplies /\ promise[startCall.wait].state = "rejected") =>
       LET seconds == IF "timeout_seconds" \in DOMAIN startCall.params
                      THEN startCall.params.timeout_seconds ELSE 60
       IN /\ waitParams[startCall.wait].timeout = seconds * 1000
          /\ startCall'.ret.isError
          /\ startCall'.ret.content =
               <<[type |-> "text",
                  text |-> "Error waiting for breakpoint: Timed out waiting for "
                           \o "breakpoint or termination (" \o ToString(seconds * 1000)
                           \o "ms)."]>>
          /\ requests' = requests]_vars

\* a start with the default timeout has returned the timeout of its wait,
\* having sent no request
C22_Witness ==
  /\ startCall.pc = "done"
  /\ "timeout_seconds" \notin DOMAIN startCall.params
  /\ promise[startCall.wait].state = "rejected"
  /\ startCall.ret.isError
  /\ Includes(startCall.ret.content[1].text, "(60000ms)")
  /\ requests = <<>>

-----------------------------------------------------------------------------
(* Properties of stopDebugSession *)

\* the registered sessions, as the call saw them, whose name is the given one
NamedExactly ==
  {i \in 1..Len(stopCall.registered) : stopCall.registered[i].name = stopCall.sessionName}

-----------------------------------------------------------------------------
(* Properties of the wait's deadline timer and target lookup *)

\* C24: a wait resolved by a stopped-event match or a termination match has
\* its deadline timer cleared in the step that resolves it, so the timeout
\* callback of a resolved wait never runs.
C24_TimerClearedOnResolve ==
  \A w \in Waits : promise[w].state = "fulfilled" => w \notin timers


\* the target of the one wait: as the list was when the wait was armed, and
\* as the list is now
ArmedTarget == ResolveTarget(waitParams[1], probe.armed)

LiveTarget == ResolveTarget(waitParams[1], activeSessions)

\* C25: the listener looks its target up in the session list as it is when a
\* StoppedEvent is delivered, not as it was when the wait was armed: the event
\* resolves the pending wait exactly when it matches the target found in the
\* list at delivery, and that target is a session registered at that moment
\* (one registered after arming included, one removed since excluded).
C25_TargetResolvedAtDelivery ==
  [][\A id \in SessionIds, body \in StoppedBodies :
       (/\ body.reason \in ValidReasons
        /\ OnDidSendMessage(id, body, "frame")
        /\ ~Settled(1)) =>
         LET event == StoppedEvent(SessionOf(id), body, "frame") IN
         /\ promise'[1] = IF EventMatchesTarget(event, LiveTarget)
                          THEN Fulfilled(event) ELSE Pending
         /\ promise'[1] # Pending =>
              /\ IsRegistered(LiveTarget.id)
              /\ backend[LiveTarget.id] = "live"]_vars

\* the session that was the target when the wait was armed has ended and left
\* the list; a session registered since then became the target and its stop,
\* which the old target would not have matched, resolved the wait
C25_Witness ==
  /\ ArmedTarget # NoSession
  /\ backend[ArmedTarget.id] = "ended"
  /\ promise[1].state = "fulfilled"
  /\ promise[1].value.reason = "breakpoint"
  /\ \A i \in DOMAIN probe.armed : probe.armed[i].id # promise[1].value.sessionId
  /\ ~EventMatchesTarget(promise[1].value, ArmedTarget)


-----------------------------------------------------------------------------
(* Properties of the debug adapter tracker *)

\* C26: StoppedEvents are fired in the order the adapters sent their 'stopped'
\* messages: of two messages, the one received first has its event fired
\* first, whatever the call-stack lookups between receipt and firing do.
C26_FiredInOrderReceived ==
  \A i, j \in DOMAIN tracker.fired :
    i < j => tracker.fired[i] < tracker.fired[j]


-----------------------------------------------------------------------------
(* Properties of the wait armed by resumeDebugSession *)

\* C27: the wait armed by a resume with waitForStop targets the session the
\* resume resolved and sent 'continue' to, whether it was found by id or by
\* the given string being contained in its name: while that wait is pending
\* and the session is live, the wait's listener takes a stop of that session
\* with a recognized reason as a match (so the resume returns that stop).
C27_WaitTargetsResumedSession ==
  (/\ resumeCall.pc \in {"continuing", "awaiting"}
   /\ WaitForStop(resumeCall.params)
   /\ backend[resumeCall.session.id] = "live"
   /\ ~Settled(resumeCall.wait)) =>
    \A body \in StoppedBodies :
      body.reason \in ValidReasons =>
        EventMatchesTarget(StoppedEvent(resumeCall.session, body, "frame"),
                           ResolveTarget(waitParams[resumeCall.wait], activeSessions))


-----------------------------------------------------------------------------
(* Properties of getStackFrameVariables: retry, order, queries *)

\* the 'scopes' queries sent so far
ScopesQueries == Len(SelectSeq(requests, LAMBDA r : r.command = "scopes"))

\* C28: one call of getStackFrameVariables runs its body at most twice and
\* sends at most two 'scopes' queries: a call without a filter or without
\* retryIfEmpty runs it once; the one retry is handed no filter and
\* retryIfEmpty = false, and returns whatever it assembles, an empty snapshot
\* included.
C28_AtMostOneRetry ==
  inspectCall.pc \in {"retrying", "done"} =>
    /\ inspectCall.attempts <= 2
    /\ ScopesQueries <= inspectCall.attempts
    /\ (~HasFilter(inspectCall.params) \/ ~RetryIfEmpty(inspectCall.params)) =>
         /\ inspectCall.pc = "done"
         /\ inspectCall.attempts = 1
    /\ inspectCall.pc = "retrying" =>
         /\ inspectCall.attempts = 1
         /\ inspectCall.next =
              [sessionId |-> inspectCall.params.sessionId,
               frameId |-> inspectCall.params.frameId,
               threadId |-> inspectCall.params.threadId,
               retryIfEmpty |-> FALSE]
    /\ inspectCall.attempts = 2 =>
         /\ inspectCall.pc = "done"
         /\ HasFilter(inspectCall.params) /\ RetryIfEmpty(inspectCall.params)

\* the filtered assembly was empty, the retry without the filter was empty
\* too, and the call returned that empty snapshot after two 'scopes' queries
C28_Witness ==
  /\ inspectCall.pc = "done"
  /\ inspectCall.attempts = 2
  /\ ScopesQueries = 2
  /\ ~inspectCall.result.isError
  /\ inspectCall.result.content[1].type = "json"
  /\ VariableCount(inspectCall.result) = 0


\* `sub` is `full` with some entries removed, the others in their order
RECURSIVE IsSubsequence(_, _)
IsSubsequence(sub, full) ==
  IF sub = <<>> THEN TRUE
  ELSE IF full = <<>> THEN FALSE
  ELSE IF Head(sub) = Head(full) THEN IsSubsequence(Tail(sub), Tail(full))
  ELSE IsSubsequence(sub, Tail(full))

\* what the adapter lists for a scope (nothing for reference 0, a failed
\* query or a response without a variables array)
BackendVariables(scope) ==
  IF scope.variablesReference = 0 THEN <<>>
  ELSE LET response == adapter.variables[scope.variablesReference] IN
       IF "throws" \in DOMAIN response THEN <<>>
       ELSE IF response.type # "object" \/ "variables" \notin DOMAIN response THEN <<>>
       ELSE IF response.variables.type # "array" THEN <<>>
       ELSE response.variables.items

\* C29: a returned snapshot lists the scopes in the order of the adapter's
\* 'scopes' response, one entry per scope, in whatever order the adapter
\* answered the 'variables' requests; each scope's variables are those of the
\* adapter's response in its order, with entries only removed by a filter and
\* none removed without one.
C29_BackendOrderKept ==
  (/\ inspectCall.pc = "done"
   /\ "attempts" \in DOMAIN inspectCall
   /\ ~inspectCall.result.isError) =>
    LET scopes == adapter.scopes.scopes.items
        json == inspectCall.result.content[1].json
        byScope == json.variablesByScope
    IN /\ Len(byScope) = Len(scopes)
       /\ \A i \in 1..Len(scopes) :
            /\ byScope[i].scopeName = scopes[i].name
            /\ IsSubsequence(byScope[i].variables, BackendVariables(scopes[i]))
            /\ (json.filter = Undefined /\ "error" \notin DOMAIN byScope[i]) =>
                 byScope[i].variables = BackendVariables(scopes[i])

\* three scopes, the adapter answered the Global query before the Local one,
\* and filter "a" kept alpha and Beta of Local, gamma and ALPHA2 of Global
C29_Witness ==
  /\ inspectCall.pc = "done"
  /\ "attempts" \in DOMAIN inspectCall
  /\ adapter.order = <<2, 1>>
  /\ ~inspectCall.result.isError
  /\ inspectCall.result.content[1].json.filter = "a"
  /\ LET byScope == inspectCall.result.content[1].json.variablesByScope IN
       /\ Len(byScope) = 3
       /\ byScope[2].scopeName = "Local"
       /\ Len(byScope[2].variables) = 2
       /\ byScope[2].variables[1].name = "alpha"
       /\ byScope[2].variables[2].name = "Beta"
       /\ byScope[3].scopeName = "Global"
       /\ Len(byScope[3].variables) = 2


\* the references of the 'variables' queries sent so far, in order
VariablesQueries ==
  LET sent == SelectSeq(requests, LAMBDA r : r.command = "variables")
  IN [k \in 1..Len(sent) |-> sent[k].args.variablesReference]

\* the non-zero references of the scopes the adapter lists, in order
NonZeroReferences ==
  LET scopes == adapter.scopes.scopes.items
      kept == SelectSeq(scopes, LAMBDA sc : sc.variablesReference # 0)
  IN [k \in 1..Len(kept) |-> kept[k].variablesReference]

RECURSIVE Repeated(_, _)
Repeated(seq, n) == IF n = 0 THEN <<>> ELSE seq \o Repeated(seq, n - 1)

\* C30: each run of the body sends one 'variables' query per scope with a
\* non-zero variablesReference, in the order of the scopes, and none for a
\* scope with reference 0 (nor any when the scopes were not listed); a scope
\* with reference 0 is returned with an empty variable list and no error.
C30_QueriesOnlyNonZeroReferences ==
  (inspectCall.pc = "done" /\ "attempts" \in DOMAIN inspectCall) =>
    /\ VariablesQueries =
         IF ScopesListed THEN Repeated(NonZeroReferences, ScopesQueries) ELSE <<>>
    /\ ~inspectCall.result.isError =>
         LET scopes == adapter.scopes.scopes.items
             byScope == inspectCall.result.content[1].json.variablesByScope
         IN \A i \in 1..Len(scopes) :
              scopes[i].variablesReference = 0 =>
                byScope[i] = [scopeName |-> scopes[i].name, variables |-> <<>>]

\* Registers (reference 0), Local and Global were listed: two queries were
\* sent and Registers came back empty, without an error
C30_Witness ==
  /\ inspectCall.pc = "done"
  /\ "attempts" \in DOMAIN inspectCall
  /\ inspectCall.attempts = 1
  /\ ~inspectCall.result.isError
  /\ Len(inspectCall.result.content[1].json.variablesByScope) = 3
  /\ inspectCall.result.content[1].json.variablesByScope[1] =
       [scopeName |-> "Registers", variables |-> <<>>]
  /\ VariablesQueries = <<1, 2>>


-----------------------------------------------------------------------------
(* Properties of the tracker's published events *)

\* message k is a 'stopped' event with one of the six recognized reasons
Recognized(k) ==
  /\ "body" \in DOMAIN tracker.received[k]
  /\ tracker.received[k].body.reason \in
       {"breakpoint", "step", "pause", "exception", "assertion", "entry"}

\* how many events the call for message k has fired
FiredFor(k) == Cardinality({j \in DOMAIN tracker.fired : tracker.fired[j] = k})

\* C31: a 'stopped' message with a recognized reason has its call-stack
\* lookup pending or has had exactly one StoppedEvent fired for it, carrying
\* its session, thread and reason, whatever the lookup brought (no frameId
\* unless the lookup brought a frame); any other message has none; and an
\* event carries exceptionInfo only if its reason is 'exception'.
C31_OneEventPerRecognizedStop ==
  /\ Len(tracker.events) = Len(tracker.fired)
  /\ \A k \in DOMAIN tracker.received :
       IF Recognized(k)
       THEN IF k \in tracker.awaiting THEN FiredFor(k) = 0 ELSE FiredFor(k) = 1
       ELSE k \notin tracker.awaiting /\ FiredFor(k) = 0
  /\ \A j \in DOMAIN tracker.events :
       LET fired == tracker.events[j]
           message == tracker.received[tracker.fired[j]]
       IN /\ fired.event.sessionId = message.session
          /\ fired.event.sessionName = SessionOf(message.session).name
          /\ fired.event.threadId = message.body.threadId
          /\ fired.event.reason = message.body.reason
          /\ "frameId" \in DOMAIN fired.event <=> fired.lookup = "frame"
          /\ fired.event.exceptionInfo # UndefinedObject =>
               fired.event.reason = "exception"

\* a message that is not a recognized stop fired nothing; an exception stop
\* whose lookup threw fired one event, with exceptionInfo and without a frameId
C31_Witness ==
  /\ Len(tracker.received) = 2
  /\ tracker.awaiting = {}
  /\ \E k \in 1..2 : ~Recognized(k)
  /\ Len(tracker.events) = 1
  /\ tracker.events[1].lookup = "throws"
  /\ tracker.events[1].event.reason = "exception"
  /\ tracker.events[1].event.exceptionInfo # UndefinedObject
  /\ "frameId" \notin DOMAIN tracker.events[1].event


-----------------------------------------------------------------------------
(* Properties of a wait whose sessionId names no registered session *)

\* no registered session has this id, nor this configuration.sessionId
Unregistered(sessionId) ==
  \A i \in DOMAIN activeSessions :
    /\ activeSessions[i].id # sessionId
    /\ "sessionId" \in DOMAIN activeSessions[i].configuration =>
         activeSessions[i].configuration.sessionId # sessionId

\* C32: while no registered session has the id (or configuration.sessionId) a
\* wait was given, no StoppedEvent resolves that wait, not even one whose own
\* sessionId is the given id, and none makes it fail: after any step taken in
\* such a state the wait is pending with its stopped-event subscription, or
\* was resolved by a termination or by its deadline.
C32_UnknownIdNeverMatches ==
  [][\A w \in Waits :
       (/\ ~Settled(w)
        /\ "sessionId" \in DOMAIN waitParams[w]
        /\ waitParams[w].sessionId # ""
        /\ Unregistered(waitParams[w].sessionId)) =>
         \/ promise'[w] = Pending /\ Subscribed(stoppedListeners', w)
                                  /\ result'[w] = NoResult
         \/ promise'[w].state = "fulfilled" /\ promise'[w].value.reason = "terminated"
         \/ promise'[w].state = "rejected" /\ w \notin timers']_vars

\* session s1 is live and was never registered; its stop resolved a later wait
\* by name (through the registered "Run test.ps1 2"), while the earlier wait
\* given sessionId s1 is still pending
C32_Witness ==
  /\ backend["s1"] = "live"
  /\ ~IsRegistered("s1")
  /\ Len(waitParams) = 2
  /\ waitParams[1] = [sessionId |-> "s1", timeout |-> 50]
  /\ promise[1] = Pending
  /\ promise[2].state = "fulfilled"
  /\ promise[2].value.reason = "breakpoint"
  /\ promise[2].value.sessionId = "s1"


\* a wait the caller armed and then returned without awaiting: resume without
\* waitForStop or with a failed 'continue', start with a failed startDebugging
UnawaitedResume ==
  /\ resumeCall.pc = "done"
  /\ "wait" \in DOMAIN resumeCall
  /\ "acknowledged" \in DOMAIN resumeCall
  /\ ~resumeCall.acknowledged \/ ~WaitForStop(resumeCall.params)

UnawaitedStart == startCall.pc = "threwStartFailed"

\* subscribed with its timer set until its first outcome, off the bus after it
HeldUntilFirstOutcome(w) ==
  IF firstOutcome[w] = Pending
  THEN /\ Subscribed(stoppedListeners, w)
       /\ Subscribed(terminateListeners, w)
       /\ w \in timers
       /\ ~Settled(w)
  ELSE ~OnBus(w) /\ Settled(w)

\* C33: a wait that was armed and never awaited (resume with waitForStop
\* false, resume whose 'continue' failed, start whose startDebugging failed)
\* stays subscribed to both emitters after the caller returned, until the
\* first matching event or its deadline (30000 ms for resume, timeout_seconds
\* for start), and in the end it is off the bus.
C33_UnawaitedWaitHeldUntilDeadline ==
  /\ [](UnawaitedResume =>
          /\ Timeout(waitParams[resumeCall.wait]) = 30000
          /\ HeldUntilFirstOutcome(resumeCall.wait))
  /\ [](UnawaitedStart =>
          /\ Timeout(waitParams[startCall.wait]) = TimeoutSeconds(startCall.params) * 1000
          /\ HeldUntilFirstOutcome(startCall.wait))
  /\ (UnawaitedResume ~> (UnawaitedResume /\ ~OnBus(resumeCall.wait)))
  /\ (UnawaitedStart ~> (UnawaitedStart /\ ~OnBus(startCall.wait)))

C33_Witness ==
  /\ UnawaitedResume
  /\ ~WaitForStop(resumeCall.params)
  /\ resumeCall.acknowledged
  /\ OnBus(resumeCall.wait)
  /\ startCall.pc = "idle"


\* C34: the promise waitForBreakpointHit returns never rejects: a wait that
\* timed out has returned a result with isError true, so start's catch
\* branch (the one testing for 'Timeout') is never taken and start's
\* time-out reply is the wait's own error result.
C34_WaitNeverRejects ==
  /\ \A w \in Waits :
       Settled(w) =>
         /\ StopPromise(promise[w]).state = "fulfilled"
         /\ StopPromise(promise[w]).value = result[w]
         /\ promise[w].state = "rejected" =>
              /\ result[w].isError
              /\ result[w].content[1].text
                   = "Error waiting for breakpoint: " \o TimeoutMessage(waitParams[w])
  /\ startCall.pc # "threwWaitError"
  /\ startCall.pc = "done" =>
       /\ ~startCall.caught
       /\ promise[startCall.wait].state = "rejected" =>
            /\ startCall.ret = result[startCall.wait]
            /\ startCall.ret # StartTimedOut(startCall.params)

C34_Witness ==
  /\ startCall.pc = "done"
  /\ promise[startCall.wait].state = "rejected"
  /\ startCall.ret.isError


\* the start call's wait was resolved by a termination event
StartWaitTerminated ==
  /\ startCall.wait \in Waits
  /\ promise[startCall.wait].state = "fulfilled"
  /\ promise[startCall.wait].value.reason = "terminated"

NormalReply ==
  /\ inspectCall.pc = "resolved"
  /\ inspectCall.ret.content[1].text = StoppedText(inspectCall.info)

NamedAs(name) == { i \in 1..Len(activeSessions) : activeSessions[i].name = name }

\* the first registered session of the event's name
FirstNamed(name) ==
  activeSessions[CHOOSE i \in NamedAs(name) : \A j \in NamedAs(name) : i <= j]

\* the event allows a variables query and that query succeeds
VariablesObtainable(info, filter) ==
  /\ {"frameId", "sessionId", "threadId"} \subseteq DOMAIN info
  /\ NamedAs(info.sessionName) # {}
  /\ ~GetStackFrameVariables([sessionId |-> FirstNamed(info.sessionName).id,
                              frameId |-> info.frameId, threadId |-> info.threadId]
                             @@ filter, activeSessions, adapter).isError

\* C36: resolveBreakpointInfo always returns isError false; in its normal
\* reply exactly one of variables and variablesError is non-null, and
\* variables is non-null exactly when the event has frameId, sessionId and
\* threadId, a registered session has the event's sessionName and
\* getStackFrameVariables returned a non-error result.
C36_VariablesOrError ==
  inspectCall.pc = "resolved" =>
    /\ ~inspectCall.ret.isError
    /\ NormalReply =>
         LET debugInfo == JSONParse(inspectCall.ret.content[2].text) IN
           /\ (debugInfo.variables # Null) # (debugInfo.variablesError # NullText)
           /\ (debugInfo.variables # Null)
                <=> VariablesObtainable(inspectCall.info, inspectCall.filter)

C36_Witness ==
  /\ NormalReply
  /\ "frameId" \in DOMAIN inspectCall.info
  /\ NamedAs(inspectCall.info.sessionName) # {}
  /\ JSONParse(inspectCall.ret.content[2].text).variables = Null
  /\ JSONParse(inspectCall.ret.content[2].text).variablesError # NullText

VariablesPathRequests ==
  SelectSeq(requests, LAMBDA r : r.command \in {"scopes", "variables"})

\* C37: resolveBreakpointInfo queries the variables of the first registered
\* session whose name equals the event's sessionName, with the event's
\* frameId, whatever the event's sessionId; with no registered session of
\* that name it makes no variables query.
C37_SessionChosenByName ==
  (NormalReply /\ "frameId" \in DOMAIN inspectCall.info) =>
    IF NamedAs(inspectCall.info.sessionName) = {}
    THEN VariablesPathRequests = <<>>
    ELSE /\ VariablesPathRequests # <<>>
         /\ \A i \in 1..Len(VariablesPathRequests) :
              VariablesPathRequests[i].session = FirstNamed(inspectCall.info.sessionName).id
         /\ VariablesPathRequests[1]
              = ScopesRequest(FirstNamed(inspectCall.info.sessionName), inspectCall.info.frameId)

C37_Witness ==
  /\ NormalReply
  /\ inspectCall.info.sessionId = "s4"
  /\ "frameId" \in DOMAIN inspectCall.info
  /\ Len(activeSessions) >= 2
  /\ activeSessions[1].id = "s1"
  /\ IsRegistered("s4")
  /\ VariablesPathRequests # <<>>
  /\ VariablesPathRequests[1].session = "s1"


\* what the first run of getStackFrameVariables' body produced
FirstResult ==
  IF "first" \in DOMAIN inspectCall THEN inspectCall.first ELSE inspectCall.result

InvalidFilter(p) == HasFilter(p) /\ ~IsValidPattern(p.filter)

\* C38: getStackFrameVariables returns a result in every case: a failing
\* scopes request gives an isError result, and a filter that is no valid
\* pattern gives, on every scope with a non-zero reference, an empty list
\* with an error, so that with retryIfEmpty the call is retried unfiltered.
C38_NeverThrows ==
  inspectCall.pc \in {"retrying", "done"} =>
    /\ DOMAIN FirstResult = {"content", "isError"}
    /\ inspectCall.pc = "done" => DOMAIN inspectCall.result = {"content", "isError"}
    /\ "throws" \in DOMAIN adapter.scopes => FirstResult.isError
    /\ (InvalidFilter(inspectCall.params) /\ ~FirstResult.isError) =>
         LET entries == FirstResult.content[1].json.variablesByScope
             scopes == adapter.scopes.scopes.items
         IN /\ \A i \in 1..Len(scopes) :
                 /\ entries[i].variables = <<>>
                 /\ scopes[i].variablesReference # 0 => "error" \in DOMAIN entries[i]
                 /\ ( /\ scopes[i].variablesReference # 0
                      /\ "throws" \notin DOMAIN adapter.variables[scopes[i].variablesReference]
                      /\ ~InvalidVariablesResponse(adapter.variables[scopes[i].variablesReference]) )
                    => entries[i].error
                         = "Error getting variables: "
                           \o SyntaxErrorMessage(inspectCall.params.filter)
            /\ RetryIfEmpty(inspectCall.params) =>
                 \/ /\ inspectCall.pc = "retrying"
                    /\ ~HasFilter(inspectCall.next)
                    /\ ~RetryIfEmpty(inspectCall.next)
                 \/ inspectCall.pc = "done" /\ inspectCall.attempts = 2

C38_Witness ==
  /\ inspectCall.pc = "done"
  /\ InvalidFilter(inspectCall.params)
  /\ RetryIfEmpty(inspectCall.params)
  /\ inspectCall.attempts = 2
  /\ ~inspectCall.result.isError
  /\ TotalVars(inspectCall.result.content[1].json.variablesByScope) > 0


EvaluateRequests == SelectSeq(requests, LAMBDA r : r.command = "evaluate")

RegisteredWithId(input) ==
  { i \in 1..Len(activeSessions) :
      "sessionId" \in DOMAIN input /\ input.sessionId # ""
      /\ activeSessions[i].id = input.sessionId }

\* C39: EvaluateExpressionTool evaluates in the registered session of the
\* given id; failing that, also when an id was given and matches nothing, in
\* the active debug session; failing that in the first registered session.
\* It answers 'No active debug session' only when all three are absent, and
\* then sends no evaluate request; a failing evaluate request is returned as
\* an error text.
C39_EvaluateSessionResolution ==
  inspectCall.pc = "evaluated" =>
    LET input == inspectCall.input
        active == inspectCall.active
        byId == RegisteredWithId(input)
        noneAtAll == byId = {} /\ active = NoSession /\ activeSessions = <<>>
    IN /\ DOMAIN inspectCall.ret = {"parts"}
       /\ Len(inspectCall.ret.parts) = 1
       /\ noneAtAll => inspectCall.ret = NoEvaluateSession /\ EvaluateRequests = <<>>
       /\ ~noneAtAll =>
            /\ Len(EvaluateRequests) = 1
            /\ EvaluateRequests[1].session =
                 (IF byId # {} THEN activeSessions[CHOOSE i \in byId : TRUE].id
                  ELSE IF active # NoSession THEN active.id
                  ELSE activeSessions[1].id)
            /\ IF "throws" \in DOMAIN inspectCall.response
               THEN inspectCall.ret.parts[1].value
                      = "Error evaluating expression 'alpha': Unable to evaluate"
               ELSE JSONParse(inspectCall.ret.parts[1].value)
                      = [expression |-> "alpha", result |-> "1", type |-> "int",
                         variablesReference |-> 0]

C39_Witness ==
  /\ inspectCall.pc = "evaluated"
  /\ inspectCall.input = [expression |-> "alpha", sessionId |-> "nope"]
  /\ inspectCall.active = SessionOf("s3")
  /\ Len(activeSessions) > 0
  /\ activeSessions[1].id = "s1"
  /\ EvaluateRequests # <<>>
  /\ EvaluateRequests[1].session = "s3"

====
